---- MODULE Spec2Model ----
(***************************************************************************)
(* Model of the resume pipeline of zimai-backend: the AI response coercer  *)
(* (AIScorer.processAIResponse), the scoring orchestrator (scoreResume,    *)
(* batchScoreResumes), the text normaliser (sanitizeText) and the document *)
(* extraction step (PDFParser.extractText).                                *)
(*                                                                         *)
(* JavaScript values are tagged records of one shape, JV:                  *)
(*   t = "undef" | "null" | "nan" | "bool" | "num" | "str" | "arr" | "obj" *)
(*   i, f : a number is i + f/10 with i its floor and f in 0..9;           *)
(*          a boolean is i = 1 (true) or i = 0 (false);                    *)
(*          an object {"length": k} carries k in i ({} carries 0)          *)
(*   s    : the characters of a string                                     *)
(*   a    : the elements of an array (strings)                             *)
(* A string is a sequence of one-character strings.                        *)
(***************************************************************************)
EXTENDS Integers, Sequences, FiniteSets, TLC

\* ------------------------------------------------------------------------
\* Bounds of the model
\* ------------------------------------------------------------------------

\* longest array a reply may carry in a list field
MaxListLen == 22

\* ------------------------------------------------------------------------
\* Program constants
\* ------------------------------------------------------------------------

ScoreMin == 0

ScoreMax == 100

FallbackScore == 50

StrengthsCap == 10

WeaknessesCap == 10

KeywordMatchesCap == 20

RecommendationsCap == 5

RedFlagsCap == 5

\* ------------------------------------------------------------------------
\* JavaScript values
\* ------------------------------------------------------------------------

JV(t, i, f, s, a) == [t |-> t, i |-> i, f |-> f, s |-> s, a |-> a]

Undef == JV("undef", 0, 0, <<>>, <<>>)

Null == JV("null", 0, 0, <<>>, <<>>)

NaN == JV("nan", 0, 0, <<>>, <<>>)

Bool(b) == JV("bool", IF b THEN 1 ELSE 0, 0, <<>>, <<>>)

Num(i) == JV("num", i, 0, <<>>, <<>>)

Frac(i, f) == JV("num", i, f, <<>>, <<>>)

Str(s) == JV("str", 0, 0, s, <<>>)

Arr(a) == JV("arr", 0, 0, <<>>, a)

Obj(k) == JV("obj", k, 0, <<>>, <<>>)

\* ToBoolean: the test behind `x || y`
Truthy(v) ==
  CASE v.t = "undef" -> FALSE
    [] v.t = "null" -> FALSE
    [] v.t = "nan" -> FALSE
    [] v.t = "bool" -> v.i = 1
    [] v.t = "num" -> v.i # 0 \/ v.f # 0
    [] v.t = "str" -> Len(v.s) > 0
    [] OTHER -> TRUE

\* x || y
Or(x, y) == IF Truthy(x) THEN x ELSE y

IsDigit(c) == c \in {"0", "1", "2", "3", "4", "5", "6", "7", "8", "9"}

DigitVal(c) ==
  CASE c = "0" -> 0 [] c = "1" -> 1 [] c = "2" -> 2 [] c = "3" -> 3
    [] c = "4" -> 4 [] c = "5" -> 5 [] c = "6" -> 6 [] c = "7" -> 7
    [] c = "8" -> 8 [] c = "9" -> 9

\* the characters JavaScript's \s and String.prototype.trim treat as blank
NBSP == "<U+00A0>"

IsSpace(c) == c \in {" ", "\t", "\n", "\r", "\f", NBSP}

RECURSIVE TrimLeft(_)
TrimLeft(s) ==
  IF Len(s) > 0 /\ IsSpace(Head(s)) THEN TrimLeft(Tail(s)) ELSE s

RECURSIVE TrimRight(_)
TrimRight(s) ==
  IF Len(s) > 0 /\ IsSpace(s[Len(s)])
  THEN TrimRight(SubSeq(s, 1, Len(s) - 1))
  ELSE s

\* String.prototype.trim
Trim(s) == TrimRight(TrimLeft(s))

RECURSIVE DigitsValue(_, _)
DigitsValue(s, acc) ==
  IF Len(s) = 0 THEN acc
  ELSE DigitsValue(Tail(s), 10 * acc + DigitVal(Head(s)))

AllDigits(s) == Len(s) > 0 /\ \A k \in 1..Len(s) : IsDigit(s[k])

\* ToNumber of a string made of blanks, signs, digits and letters:
\* blank -> 0, an optionally signed decimal integer -> its value, else NaN
StringToNumber(s) ==
  LET u == Trim(s) IN
  IF Len(u) = 0 THEN Num(0)
  ELSE IF AllDigits(u) THEN Num(DigitsValue(u, 0))
  ELSE IF Head(u) = "-" /\ AllDigits(Tail(u)) THEN Num(0 - DigitsValue(Tail(u), 0))
  ELSE IF Head(u) = "+" /\ AllDigits(Tail(u)) THEN Num(DigitsValue(Tail(u), 0))
  ELSE NaN

\* ToNumber, the conversion Math.min and Math.max apply to their arguments
ToNumber(v) ==
  CASE v.t = "undef" -> NaN
    [] v.t = "null" -> Num(0)
    [] v.t = "nan" -> NaN
    [] v.t = "bool" -> Num(v.i)
    [] v.t = "num" -> v
    [] v.t = "str" -> StringToNumber(v.s)
    [] v.t = "arr" -> IF Len(v.a) = 0 THEN Num(0)
                      ELSE IF Len(v.a) = 1 THEN StringToNumber(v.a[1])
                      ELSE NaN
    [] OTHER -> NaN

\* a <= b on numbers i + f/10
NumLe(a, b) == a.i < b.i \/ (a.i = b.i /\ a.f <= b.f)

\* Math.max(lo, x) with lo an integer
MathMax(lo, x) ==
  LET n == ToNumber(x) IN
  IF n.t = "nan" THEN NaN
  ELSE IF NumLe(Num(lo), n) THEN n ELSE Num(lo)

\* Math.min(hi, x) with hi an integer
MathMin(hi, x) ==
  LET n == ToNumber(x) IN
  IF n.t = "nan" THEN NaN
  ELSE IF NumLe(n, Num(hi)) THEN n ELSE Num(hi)

\* Array.isArray
IsArray(v) == v.t = "arr"

\* Array.prototype.slice(0, n)
Slice(a, n) == SubSeq(a, 1, IF Len(a) < n THEN Len(a) ELSE n)

\* v?.length
LengthOf(v) ==
  CASE v.t = "str" -> Num(Len(v.s))
    [] v.t = "arr" -> Num(Len(v.a))
    [] v.t = "obj" -> IF v.i > 0 THEN Num(v.i) ELSE Undef
    [] OTHER -> Undef

\* ------------------------------------------------------------------------
\* Replies of the text-generation service, as JSON.parse delivers them
\* ------------------------------------------------------------------------

\* A reply: kind is the reply itself when it is not an object (null, number,
\* string, boolean, array) and Obj(0) when it is one; the other fields are
\* the object's properties, Undef when the property is missing.  A breakdown
\* has the same layout.

DigitChar(d) ==
  CASE d = 0 -> "0" [] d = 1 -> "1" [] d = 2 -> "2" [] d = 3 -> "3"
    [] d = 4 -> "4" [] d = 5 -> "5" [] d = 6 -> "6" [] d = 7 -> "7"
    [] d = 8 -> "8" [] d = 9 -> "9"

\* the k-th entry of a list the model sends
Entry(k) == <<"w", DigitChar((k \div 10) % 10), DigitChar(k % 10)>>

ListOf(n) == Arr([k \in 1..n |-> Entry(k)])

ListLens == {0, 1, 2, 5, 6, 10, 11, 20, 21, MaxListLen}

ScoreVals ==
  { Undef, Null, Bool(TRUE), Bool(FALSE),
    Num(0), Num(1), Num(85), Num(100), Num(101), Num(150), Num(0 - 5),
    Num(1000000000), Num(0 - 1000000000),
    Frac(85, 5), Frac(0 - 1, 5), Frac(100, 5), Frac(0, 5),
    Str(<<>>), Str(<<"8", "5">>), Str(<<"-", "3">>), Str(<<"2", "5", "0">>),
    Str(<<"a", "b", "c">>), Str(<<" ">>),
    Arr(<<>>), Arr(<<<<"8", "5">>>>), Arr(<<<<"a">>>>), ListOf(2),
    Obj(0) }

ListVals ==
  { ListOf(n) : n \in ListLens } \cup
  { Undef, Null, Bool(TRUE), Num(7), Str(<<>>), Str(<<"a", "b", "c">>),
    Obj(0), Obj(7) }

SummaryVals ==
  { Undef, Null, Str(<<>>), Str(<<"G", "o", "o", "d">>), Num(0), Num(42),
    Bool(TRUE), Bool(FALSE), Arr(<<>>), ListOf(1), Obj(0) }

ReplyNameVals == { Undef, Null, Str(<<"E", "v", "e">>), Num(3) }

GoodBreakdown ==
  [kind |-> Obj(0), skills |-> Num(80), experience |-> Num(90),
   education |-> Num(75), relevance |-> Num(85)]

NoBreakdown(k) ==
  [kind |-> k, skills |-> Undef, experience |-> Undef,
   education |-> Undef, relevance |-> Undef]

BreakdownVals ==
  { NoBreakdown(k) : k \in {Undef, Null, Num(70), Str(<<"a">>), Bool(TRUE), Arr(<<>>)} } \cup
  { [GoodBreakdown EXCEPT !.skills = v] : v \in ScoreVals } \cup
  { [GoodBreakdown EXCEPT !.experience = v] : v \in ScoreVals } \cup
  { [GoodBreakdown EXCEPT !.education = v] : v \in ScoreVals } \cup
  { [GoodBreakdown EXCEPT !.relevance = v] : v \in ScoreVals }

\* the reply the prompt asks for (buildScoringPrompt's example)
GoodReply ==
  [kind |-> Obj(0),
   overallScore |-> Num(85),
   breakdown |-> GoodBreakdown,
   strengths |-> ListOf(2),
   weaknesses |-> ListOf(2),
   keywordMatches |-> ListOf(5),
   experienceYears |-> Num(5),
   summary |-> Str(<<"G", "o", "o", "d">>),
   recommendations |-> ListOf(2),
   redFlags |-> ListOf(0),
   fitScore |-> Num(85),
   candidateName |-> Undef]

\* the object {} : every property missing
EmptyObject ==
  [kind |-> Obj(0), overallScore |-> Undef, breakdown |-> NoBreakdown(Undef),
   strengths |-> Undef, weaknesses |-> Undef, keywordMatches |-> Undef,
   experienceYears |-> Undef, summary |-> Undef, recommendations |-> Undef,
   redFlags |-> Undef, fitScore |-> Undef, candidateName |-> Undef]

\* a reply that is not an object
NonObject(k) == [EmptyObject EXCEPT !.kind = k]

NonObjectKinds ==
  { Null, Num(0), Num(5), Str(<<>>), Str(<<"a", "b", "c">>),
    Bool(TRUE), Bool(FALSE), Arr(<<>>), ListOf(2) }

FitVals == { Undef, Null, Num(0), Num(40), Num(150), Num(0 - 5), Str(<<"a">>) }

Replies ==
  { NonObject(k) : k \in NonObjectKinds } \cup
  { EmptyObject, GoodReply } \cup
  { [GoodReply EXCEPT !.overallScore = v] : v \in ScoreVals } \cup
  { [GoodReply EXCEPT !.fitScore = v] : v \in ScoreVals } \cup
  { [GoodReply EXCEPT !.experienceYears = v] : v \in ScoreVals } \cup
  { [GoodReply EXCEPT !.breakdown = b] : b \in BreakdownVals } \cup
  { [GoodReply EXCEPT !.strengths = v] : v \in ListVals } \cup
  { [GoodReply EXCEPT !.weaknesses = v] : v \in ListVals } \cup
  { [GoodReply EXCEPT !.keywordMatches = v] : v \in ListVals } \cup
  { [GoodReply EXCEPT !.recommendations = v] : v \in ListVals } \cup
  { [GoodReply EXCEPT !.redFlags = v] : v \in ListVals } \cup
  { [GoodReply EXCEPT !.summary = v] : v \in SummaryVals } \cup
  { [GoodReply EXCEPT !.candidateName = v] : v \in ReplyNameVals } \cup
  { [GoodReply EXCEPT !.fitScore = v, !.overallScore = w] :
      v \in FitVals, w \in FitVals }

\* BasicInfo records (PDFParser.extractBasicInfo): candidateName is a string
\* or null
BasicInfos ==
  { [candidateName |-> n, email |-> Null, phone |-> Null, location |-> Null] :
      n \in { Null, Str(<<"A", "n", "n">>), Str(<<"B", "o", "b">>) } }

\* ------------------------------------------------------------------------
\* AIScorer.processAIResponse
\* ------------------------------------------------------------------------

\* aiResponse.<name> : a TypeError on null and undefined, undefined on a
\* value that is not an object
ThrowsOnAccess(aiResponse) == aiResponse.kind.t \in {"null", "undef"}

Prop(aiResponse, name) ==
  IF aiResponse.kind.t = "obj" THEN aiResponse[name] ELSE Undef

\* aiResponse.breakdown?.<name>
BreakdownProp(aiResponse, name) ==
  IF aiResponse.kind.t = "obj" /\ aiResponse.breakdown.kind.t = "obj"
  THEN aiResponse.breakdown[name]
  ELSE Undef

\* Math.min(100, Math.max(0, v || 0))
ClampScore(v) == MathMin(ScoreMax, MathMax(ScoreMin, Or(v, Num(0))))

\* mutant of CapList: the trailing entries are kept
CapList_KeepLast(v, cap) ==
  IF IsArray(v)
  THEN Arr(SubSeq(v.a, (IF Len(v.a) < cap THEN 0 ELSE Len(v.a) - cap) + 1, Len(v.a)))
  ELSE Arr(<<>>)

\* Array.isArray(v) ? v.slice(0, cap) : []
CapList(v, cap) == IF IsArray(v) THEN Arr(Slice(v.a, cap)) ELSE Arr(<<>>)

DefaultSummary ==
  Str(<<"R", "e", "s", "u", "m", "e", " ", "a", "n", "a", "l", "y", "z", "e", "d", " ", "s", "u", "c", "c", "e", "s", "s", "f", "u", "l", "l", "y", ".">>)

\* mutant of ProcessedCandidateName: the reply's own candidateName wins
ProcessedCandidateName_FromReply(aiResponse, basicInfo) ==
  Or(Prop(aiResponse, "candidateName"), basicInfo.candidateName)

\* candidateName: basicInfo.candidateName (line 151)
ProcessedCandidateName(aiResponse, basicInfo) ==
  basicInfo.candidateName

\* the object built in the try block
Processed(aiResponse, basicInfo) ==
  [overallScore |-> ClampScore(Prop(aiResponse, "overallScore")),
   breakdown |->
     [skills |-> ClampScore(BreakdownProp(aiResponse, "skills")),
      experience |-> ClampScore(BreakdownProp(aiResponse, "experience")),
      education |-> ClampScore(BreakdownProp(aiResponse, "education")),
      relevance |-> ClampScore(BreakdownProp(aiResponse, "relevance"))],
   strengths |-> CapList(Prop(aiResponse, "strengths"), StrengthsCap),
   weaknesses |-> CapList(Prop(aiResponse, "weaknesses"), WeaknessesCap),
   keywordMatches |-> CapList(Prop(aiResponse, "keywordMatches"), KeywordMatchesCap),
   experienceYears |-> MathMax(0, Or(Prop(aiResponse, "experienceYears"), Num(0))),
   summary |-> Or(Prop(aiResponse, "summary"), DefaultSummary),
   recommendations |-> CapList(Prop(aiResponse, "recommendations"), RecommendationsCap),
   redFlags |-> CapList(Prop(aiResponse, "redFlags"), RedFlagsCap),
   fitScore |-> ClampScore(Or(Prop(aiResponse, "fitScore"), Prop(aiResponse, "overallScore"))),
   candidateName |-> ProcessedCandidateName(aiResponse, basicInfo),
   keywordsMatched |-> Or(LengthOf(Prop(aiResponse, "keywordMatches")), Num(0))]

FallbackSummary ==
  Str(<<"B", "a", "s", "i", "c", " ", "a", "n", "a", "l", "y", "s", "i", "s", " ", "c", "o", "m", "p", "l", "e", "t", "e", "d", " ", "w", "i", "t", "h", " ", "l", "i", "m", "i", "t", "e", "d", " ", "A", "I", " ", "p", "r", "o", "c", "e", "s", "s", "i", "n", "g", ".">>)

\* the object returned by the catch block
Fallback(basicInfo) ==
  [overallScore |-> Num(FallbackScore),
   breakdown |->
     [skills |-> Num(FallbackScore), experience |-> Num(FallbackScore),
      education |-> Num(FallbackScore), relevance |-> Num(FallbackScore)],
   strengths |-> Arr(<<<<"R", "e", "s", "u", "m", "e", " ", "p", "r", "o", "c", "e", "s", "s", "e", "d">>>>),
   weaknesses |-> Arr(<<<<"U", "n", "a", "b", "l", "e", " ", "t", "o", " ", "c", "o", "m", "p", "l", "e", "t", "e", " ", "f", "u", "l", "l", " ", "a", "n", "a", "l", "y", "s", "i", "s">>>>),
   keywordMatches |-> Arr(<<>>),
   experienceYears |-> Num(0),
   summary |-> FallbackSummary,
   recommendations |-> Arr(<<<<"M", "a", "n", "u", "a", "l", " ", "r", "e", "v", "i", "e", "w", " ", "r", "e", "c", "o", "m", "m", "e", "n", "d", "e", "d">>>>),
   redFlags |-> Arr(<<>>),
   fitScore |-> Num(FallbackScore),
   candidateName |-> basicInfo.candidateName,
   keywordsMatched |-> Num(0)]

\* the try block: the first property read of a null or undefined reply
\* raises a TypeError, otherwise the block returns the processed object
TryBlock(aiResponse, basicInfo) ==
  IF ThrowsOnAccess(aiResponse)
  THEN [threw |-> TRUE, path |-> "normal", value |-> Fallback(basicInfo)]
  ELSE [threw |-> FALSE, path |-> "normal", value |-> Processed(aiResponse, basicInfo)]

\* the catch block
CatchBlock(basicInfo) ==
  [threw |-> FALSE, path |-> "fallback", value |-> Fallback(basicInfo)]

\* the outcome of a call is [threw, path, value]; threw tells that an
\* exception left the function, and value is then not a return value
processAIResponse(aiResponse, basicInfo) ==
  LET body == TryBlock(aiResponse, basicInfo) IN
  IF body.threw THEN CatchBlock(basicInfo) ELSE body

\* ------------------------------------------------------------------------
\* sanitizeText
\* ------------------------------------------------------------------------

\* characters outside ASCII that the rules name
BULLET == "<U+2022>"

ENDASH == "<U+2013>"

EMDASH == "<U+2014>"

ELLIPSIS == "<U+2026>"

SpaceChars == {" ", "\t", "\n", "\r", "\f", NBSP}

DigitChars == {"0", "1", "2", "3", "4", "5", "6", "7", "8", "9"}

\* the characters ^ and $ treat as line ends under the m flag
LineTerminators == {"\n", "\r"}

\* s from position p on
From(s, p) == SubSeq(s, p, Len(s))

\* lit occurs in s at position p
OccursAt(s, p, lit) ==
  /\ p + Len(lit) - 1 <= Len(s)
  /\ SubSeq(s, p, p + Len(lit) - 1) = lit

\* the first position at or after p whose character is outside class
\* (Len(s) + 1 when there is none): the end of a greedy run
RECURSIVE RunEnd(_, _, _)
RunEnd(s, p, class) ==
  IF p > Len(s) THEN p
  ELSE IF s[p] \notin class THEN p
  ELSE RunEnd(s, p + 1, class)

\* s.replace(/lit/g, r) for a literal lit
RECURSIVE ReplaceAll(_, _, _)
ReplaceAll(s, lit, r) ==
  IF Len(s) = 0 THEN <<>>
  ELSE IF OccursAt(s, 1, lit) THEN r \o ReplaceAll(From(s, Len(lit) + 1), lit, r)
  ELSE <<Head(s)>> \o ReplaceAll(Tail(s), lit, r)

\* s.replace(/[class]{min,}/g, r): every maximal run of at least min
\* characters of class becomes r
RECURSIVE CollapseRuns(_, _, _, _)
CollapseRuns(s, class, min, r) ==
  IF Len(s) = 0 THEN <<>>
  ELSE LET q == RunEnd(s, 1, class) IN
       IF q - 1 >= min THEN r \o CollapseRuns(From(s, q), class, min, r)
       ELSE IF q > 1 THEN SubSeq(s, 1, q - 1) \o CollapseRuns(From(s, q), class, min, r)
       ELSE <<Head(s)>> \o CollapseRuns(Tail(s), class, min, r)

\* ^ at position p
AtLineStart(s, p) == p = 1 \/ s[p - 1] \in LineTerminators

\* $ at position q (the position of the next character)
AtLineEnd(s, q) == q = Len(s) + 1 \/ s[q] \in LineTerminators

\* the end of \s*$ started at d: the greedy run of blanks, given back until
\* $ holds; 0 when it holds nowhere
TrailEnd(s, d) ==
  LET ends == { r \in d..RunEnd(s, d, SpaceChars) : AtLineEnd(s, r) } IN
  IF ends = {} THEN 0
  ELSE CHOOSE r \in ends : \A x \in ends : x <= r

\* the end of a match of /^\s*\d+\s*$/m at p, 0 when there is none
StandaloneNumberEnd(s, p) ==
  IF ~AtLineStart(s, p) THEN 0
  ELSE LET a == RunEnd(s, p, SpaceChars)
           b == RunEnd(s, a, DigitChars)
       IN IF b = a THEN 0 ELSE TrailEnd(s, b)

PageWord == <<"P", "a", "g", "e", " ">>

OfWord == <<" ", "o", "f", " ">>

\* the end of a match of /^\s*Page \d+ of \d+\s*$/m at p, 0 when there is
\* none
PageMarkerEnd(s, p) ==
  IF ~AtLineStart(s, p) THEN 0
  ELSE LET a == RunEnd(s, p, SpaceChars)
           b == a + Len(PageWord)
           c == IF OccursAt(s, a, PageWord) THEN RunEnd(s, b, DigitChars) ELSE b
           d == c + Len(OfWord)
           e == IF c > b /\ OccursAt(s, c, OfWord) THEN RunEnd(s, d, DigitChars) ELSE d
       IN IF e > d THEN TrailEnd(s, e) ELSE 0

\* s.replace(/^\s*Page \d+ of \d+\s*$/gm, ''), scanning from position p
RECURSIVE RemovePageMarkers(_, _)
RemovePageMarkers(s, p) ==
  IF p > Len(s) THEN <<>>
  ELSE LET e == PageMarkerEnd(s, p) IN
       IF e > 0 THEN RemovePageMarkers(s, e)
       ELSE <<s[p]>> \o RemovePageMarkers(s, p + 1)

\* s.replace(/^\s*\d+\s*$/gm, ''), scanning from position p
RECURSIVE RemoveStandaloneNumbers(_, _)
RemoveStandaloneNumbers(s, p) ==
  IF p > Len(s) THEN <<>>
  ELSE LET e == StandaloneNumberEnd(s, p) IN
       IF e > 0 THEN RemoveStandaloneNumbers(s, e)
       ELSE <<s[p]>> \o RemoveStandaloneNumbers(s, p + 1)

ConfidentialMarker ==
  <<"C", "o", "n", "f", "i", "d", "e", "n", "t", "i", "a", "l", " ", "a", "n", "d", " ", "P", "r", "o", "p", "r", "i", "e", "t", "a", "r", "y">>

EmailFooterMarker ==
  <<"T", "h", "i", "s", " ", "e", "m", "a", "i", "l", " ", "a", "n", "d", " ", "a", "n", "y", " ", "a", "t", "t", "a", "c", "h", "m", "e", "n", "t", "s">>

\* s.replace(/lit[\s\S]*$/gm, ''): the text from the first lit on is dropped
TruncateFrom(s, lit) ==
  LET hits == { p \in 1..Len(s) : OccursAt(s, p, lit) } IN
  IF hits = {} THEN s
  ELSE SubSeq(s, 1, (CHOOSE p \in hits : \A x \in hits : p <= x) - 1)

\* s.replace(/\n\s*\n\s*\n/g, '\n\n'), scanning from position p: a run of
\* blanks that starts with a newline and holds three or more newlines is
\* matched up to its last newline
RECURSIVE CollapseBlankLines(_, _)
CollapseBlankLines(s, p) ==
  IF p > Len(s) THEN <<>>
  ELSE LET r == RunEnd(s, p, SpaceChars)
           nls == { k \in p..(r - 1) : s[k] = "\n" }
       IN IF s[p] = "\n" /\ Cardinality(nls) >= 3
          THEN <<"\n", "\n">> \o
               CollapseBlankLines(s, (CHOOSE k \in nls : \A x \in nls : x <= k) + 1)
          ELSE <<s[p]>> \o CollapseBlankLines(s, p + 1)

\* line breaks and blank runs (lines 290-293)
NormalizeWhitespace(s) ==
  LET a == ReplaceAll(s, <<"\r", "\n">>, <<"\n">>)
      b == ReplaceAll(a, <<"\r">>, <<"\n">>)
      c == CollapseRuns(b, {"\n"}, 3, <<"\n", "\n">>)
  IN CollapseRuns(c, {" ", "\t"}, 2, <<" ">>)

\* PDF artifacts (lines 296-300)
RemoveArtifacts(s) ==
  LET a == ReplaceAll(s, <<"\f">>, <<>>)
      b == ReplaceAll(a, <<NBSP>>, <<" ">>)
      c == ReplaceAll(b, <<BULLET>>, <<BULLET>>)
      d == ReplaceAll(c, <<ENDASH>>, <<"-">>)
  IN ReplaceAll(d, <<EMDASH>>, <<"-", "-">>)

\* quotes, apostrophes and the ellipsis glyph (lines 303-305); the two
\* character classes of the source hold the straight quote and the straight
\* apostrophe only
NormalizeSpecials(s) ==
  LET a == ReplaceAll(s, <<"\"">>, <<"\"">>)
      b == ReplaceAll(a, <<"'">>, <<"'">>)
  IN ReplaceAll(b, <<ELLIPSIS>>, <<".", ".", ".">>)

\* excessive punctuation (lines 308-310)
CollapsePunctuation(s) ==
  LET a == CollapseRuns(s, {"."}, 4, <<".", ".", ".">>)
      b == CollapseRuns(a, {"-"}, 3, <<"-", "-">>)
  IN CollapseRuns(b, {"_"}, 3, <<"_", "_">>)

\* page numbers and footers (lines 313-318)
RemoveFormattingArtifacts(s) ==
  LET a == RemovePageMarkers(s, 1)
      b == RemoveStandaloneNumbers(a, 1)
      c == TruncateFrom(b, ConfidentialMarker)
  IN TruncateFrom(c, EmailFooterMarker)

\* final cleanup (lines 321-322)
FinalCleanup(s) == CollapseBlankLines(Trim(s), 1)

\* sanitizeText of a string ('' for the empty string)
sanitizeText(text) ==
  IF Len(text) = 0 THEN <<>>
  ELSE FinalCleanup(RemoveFormattingArtifacts(CollapsePunctuation(
         NormalizeSpecials(RemoveArtifacts(NormalizeWhitespace(text))))))

\* ------------------------------------------------------------------------
\* PDFParser.extractText
\* ------------------------------------------------------------------------

\* String.prototype.includes
Includes(s, lit) == \E p \in 1..Len(s) : OccursAt(s, p, lit)

\* s.split(/\s+/).length : one more than the number of runs of blanks
RECURSIVE SplitCount(_, _)
SplitCount(s, p) ==
  IF p > Len(s) THEN 1
  ELSE IF s[p] \in SpaceChars
       THEN 1 + SplitCount(s, RunEnd(s, p, SpaceChars))
       ELSE SplitCount(s, p + 1)

NoTextMessage ==
  <<"N", "o", " ", "t", "e", "x", "t", " ", "c", "o", "n", "t", "e", "n", "t", " ", "f", "o", "u", "n", "d", " ", "i", "n", " ", "P", "D", "F">>

InvalidPdfMessage ==
  <<"I", "n", "v", "a", "l", "i", "d", " ", "P", "D", "F", " ", "f", "i", "l", "e", " ", "f", "o", "r", "m", "a", "t">>

EncryptedMessage ==
  <<"P", "D", "F", " ", "i", "s", " ", "p", "a", "s", "s", "w", "o", "r", "d", " ", "p", "r", "o", "t", "e", "c", "t", "e", "d", " ", "o", "r", " ", "e", "n", "c", "r", "y", "p", "t", "e", "d">>

NoReadableTextMessage ==
  <<"P", "D", "F", " ", "c", "o", "n", "t", "a", "i", "n", "s", " ", "n", "o", " ", "r", "e", "a", "d", "a", "b", "l", "e", " ", "t", "e", "x", "t", " ", "c", "o", "n", "t", "e", "n", "t">>

GenericFailurePrefix ==
  <<"F", "a", "i", "l", "e", "d", " ", "t", "o", " ", "e", "x", "t", "r", "a", "c", "t", " ", "t", "e", "x", "t", " ", "f", "r", "o", "m", " ", "P", "D", "F", ":", " ">>

NoExtraction == [threw |-> FALSE, message |-> <<>>, text |-> <<>>,
                 rawText |-> <<>>, wordCount |-> 0, charCount |-> 0]

\* mutant of ClassifyExtractError: no branch for encrypted documents
ClassifyExtractError_NoEncrypted(message) ==
  [NoExtraction EXCEPT
     !.threw = TRUE,
     !.message =
       IF Includes(message, <<"I", "n", "v", "a", "l", "i", "d", " ", "P", "D", "F">>)
       THEN InvalidPdfMessage
       ELSE IF Includes(message, <<"N", "o", " ", "t", "e", "x", "t", " ", "c", "o", "n", "t", "e", "n", "t">>)
       THEN NoReadableTextMessage
       ELSE GenericFailurePrefix \o message]

\* the catch block of extractText: the error raised for a failure message
ClassifyExtractError(message) ==
  [NoExtraction EXCEPT
     !.threw = TRUE,
     !.message =
       IF Includes(message, <<"I", "n", "v", "a", "l", "i", "d", " ", "P", "D", "F">>)
       THEN InvalidPdfMessage
       ELSE IF Includes(message, <<"e", "n", "c", "r", "y", "p", "t", "e", "d">>)
       THEN EncryptedMessage
       ELSE IF Includes(message, <<"N", "o", " ", "t", "e", "x", "t", " ", "c", "o", "n", "t", "e", "n", "t">>)
       THEN NoReadableTextMessage
       ELSE GenericFailurePrefix \o message]

\* extractText once pdf() has settled: pdfData is [threw, message, text]
extractText(pdfData) ==
  IF pdfData.threw THEN ClassifyExtractError(pdfData.message)
  ELSE IF Len(pdfData.text) = 0 \/ Len(Trim(pdfData.text)) = 0
  THEN ClassifyExtractError(NoTextMessage)
  ELSE LET cleanText == sanitizeText(pdfData.text) IN
       [threw |-> FALSE, message |-> <<>>, text |-> cleanText,
        rawText |-> pdfData.text,
        wordCount |-> SplitCount(cleanText, 1),
        charCount |-> Len(cleanText)]

\* ------------------------------------------------------------------------
\* AIScorer.scoreResume
\* ------------------------------------------------------------------------

OverallScoreKey ==
  <<"{", "\"", "o", "v", "e", "r", "a", "l", "l", "S", "c", "o", "r", "e", "\"", ":">>

\* JSON.parse of a reply text that is a literal (null, true, false, an
\* unsigned integer), the empty array, the empty object or an object with
\* the one property overallScore; any other text is a SyntaxError
JSONParse(text) ==
  LET t == Trim(text)
      n == Len(t)
      k == Len(OverallScoreKey)
      ok(v) == [threw |-> FALSE, value |-> v]
  IN CASE t = <<"n", "u", "l", "l">> -> ok(NonObject(Null))
       [] t = <<"t", "r", "u", "e">> -> ok(NonObject(Bool(TRUE)))
       [] t = <<"f", "a", "l", "s", "e">> -> ok(NonObject(Bool(FALSE)))
       [] AllDigits(t) -> ok(NonObject(Num(DigitsValue(t, 0))))
       [] t = <<"[", "]">> -> ok(NonObject(Arr(<<>>)))
       [] t = <<"{", "}">> -> ok(EmptyObject)
       [] /\ n > k + 1
          /\ SubSeq(t, 1, k) = OverallScoreKey
          /\ t[n] = "}"
          /\ AllDigits(SubSeq(t, k + 1, n - 1)) ->
            ok([EmptyObject EXCEPT
                  !.overallScore = Num(DigitsValue(SubSeq(t, k + 1, n - 1), 0))])
       [] OTHER -> [threw |-> TRUE, value |-> EmptyObject]

ScoringFailedPrefix ==
  <<"A", "I", " ", "s", "c", "o", "r", "i", "n", "g", " ", "f", "a", "i", "l", "e", "d", ":", " ">>

SyntaxErrorMessage ==
  <<"U", "n", "e", "x", "p", "e", "c", "t", "e", "d", " ", "t", "o", "k", "e", "n">>

\* a ScoringResult none of whose fields is set
NoScoring ==
  [overallScore |-> Undef,
   breakdown |-> [skills |-> Undef, experience |-> Undef,
                  education |-> Undef, relevance |-> Undef],
   strengths |-> Undef, weaknesses |-> Undef, keywordMatches |-> Undef,
   experienceYears |-> Undef, summary |-> Undef, recommendations |-> Undef,
   redFlags |-> Undef, fitScore |-> Undef, candidateName |-> Undef,
   keywordsMatched |-> Undef]

\* scoreResume once the completion call has settled.  completion is
\* [rejected, message, content, totalTokens]; the outcome is
\* [threw, message, value, tokensUsed]
scoreResume(completion, info) ==
  IF completion.rejected
  THEN [threw |-> TRUE, message |-> ScoringFailedPrefix \o completion.message,
        value |-> NoScoring, tokensUsed |-> 0]
  ELSE LET parsed == JSONParse(completion.content) IN
       IF parsed.threw
       THEN [threw |-> TRUE, message |-> ScoringFailedPrefix \o SyntaxErrorMessage,
             value |-> NoScoring, tokensUsed |-> 0]
       ELSE LET scoringResult == processAIResponse(parsed.value, info) IN
            IF scoringResult.threw
            THEN [threw |-> TRUE, message |-> ScoringFailedPrefix,
                  value |-> NoScoring, tokensUsed |-> 0]
            ELSE [threw |-> FALSE, message |-> <<>>,
                  value |-> scoringResult.value,
                  tokensUsed |-> completion.totalTokens]

\* ------------------------------------------------------------------------
\* AIScorer.batchScoreResumes
\* ------------------------------------------------------------------------

\* the pause after a scored resume, in milliseconds
SleepMs == 1000

ScoringFailedSummary ==
  <<"S", "c", "o", "r", "i", "n", "g", " ", "f", "a", "i", "l", "e", "d">>

\* the entry pushed for a scored resume: { resumeId, success: true, ...result }
SuccessEntry(resume, outcome) ==
  [resumeId |-> resume.id, success |-> TRUE, error |-> Undef,
   fields |-> outcome.value, tokensUsed |-> Num(outcome.tokensUsed)]

\* the entry pushed by the catch block
FailureEntry(resume, outcome) ==
  [resumeId |-> resume.id, success |-> FALSE, error |-> Str(outcome.message),
   fields |-> [NoScoring EXCEPT !.overallScore = Num(0),
                                !.summary = Str(ScoringFailedSummary)],
   tokensUsed |-> Undef]

\* ------------------------------------------------------------------------
\* PDFParser.validatePDF
\* ------------------------------------------------------------------------

\* A buffer: kind is "buffer" for a Buffer and "null" or "undef" for a
\* missing one; head holds its first SignatureLen bytes and length its size.

SignatureLen == 4

MinPdfSize == 1024

PdfSignature == <<"%", "P", "D", "F">>

REPLACEMENT == "<U+FFFD>"

\* Buffer.toString() on one byte of the bytes the model uses: ASCII bytes
\* decode to their character, a byte that is not UTF-8 to U+FFFD
ByteToChar(b) ==
  CASE b = 37 -> "%" [] b = 80 -> "P" [] b = 68 -> "D" [] b = 70 -> "F"
    [] b = 71 -> "G" [] b = 75 -> "K" [] b = 60 -> "<" [] b = 104 -> "h"
    [] b = 116 -> "t" [] b = 109 -> "m" [] b = 112 -> "p" [] b = 100 -> "d"
    [] b = 102 -> "f" [] b = 32 -> " " [] b = 3 -> "<U+0003>" [] b = 4 -> "<U+0004>"
    [] OTHER -> REPLACEMENT

\* buffer.slice(0, 4).toString()
SignatureOf(buffer) == [k \in 1..Len(buffer.head) |-> ByteToChar(buffer.head[k])]

\* the TypeError of buffer.slice on a missing buffer
SliceOfNullMessage == <<"C", "a", "n", "n", "o", "t", " ", "r", "e", "a", "d", " ", "p", "r", "o", "p", "e", "r", "t", "i", "e", "s", " ", "o", "f", " ", "n", "u", "l", "l", " ", "(", "r", "e", "a", "d", "i", "n", "g", " ", "'", "s", "l", "i", "c", "e", "'", ")">>

SliceOfUndefinedMessage == <<"C", "a", "n", "n", "o", "t", " ", "r", "e", "a", "d", " ", "p", "r", "o", "p", "e", "r", "t", "i", "e", "s", " ", "o", "f", " ", "u", "n", "d", "e", "f", "i", "n", "e", "d", " ", "(", "r", "e", "a", "d", "i", "n", "g", " ", "'", "s", "l", "i", "c", "e", "'", ")">>

InvalidSignatureError == <<"I", "n", "v", "a", "l", "i", "d", " ", "P", "D", "F", " ", "s", "i", "g", "n", "a", "t", "u", "r", "e">>

FileTooSmallError == <<"F", "i", "l", "e", " ", "t", "o", "o", " ", "s", "m", "a", "l", "l", " ", "t", "o", " ", "b", "e", " ", "a", " ", "v", "a", "l", "i", "d", " ", "P", "D", "F">>

ValidationFailedPrefix == <<"P", "D", "F", " ", "v", "a", "l", "i", "d", "a", "t", "i", "o", "n", " ", "f", "a", "i", "l", "e", "d", ":", " ">>

\* what the await of pdf() did in the call: "none" | "resolved" | "rejected"
Validation(isValid, error, parse) ==
  [threw |-> FALSE, isValid |-> isValid, error |-> error, parse |-> parse]

NoValidation == Validation(FALSE, Undef, "none")

\* the catch block
ValidateCatch(message, parse) ==
  Validation(FALSE, Str(ValidationFailedPrefix \o message), parse)

\* mutant of TooSmall: the size is not looked at
TooSmall_Never(buffer) == FALSE

\* buffer.length < 1024
TooSmall(buffer) == buffer.length < MinPdfSize

\* the try block up to the await of pdf(): done tells that the call is over
ValidateBeforeParse(buffer) ==
  IF buffer.kind = "null"
  THEN [done |-> TRUE, value |-> ValidateCatch(SliceOfNullMessage, "none")]
  ELSE IF buffer.kind = "undef"
  THEN [done |-> TRUE, value |-> ValidateCatch(SliceOfUndefinedMessage, "none")]
  ELSE IF SignatureOf(buffer) # PdfSignature
  THEN [done |-> TRUE, value |-> Validation(FALSE, Str(InvalidSignatureError), "none")]
  ELSE IF TooSmall(buffer)
  THEN [done |-> TRUE, value |-> Validation(FALSE, Str(FileTooSmallError), "none")]
  ELSE [done |-> FALSE, value |-> NoValidation]

\* ------------------------------------------------------------------------
\* AIScorer.generateInsights
\* ------------------------------------------------------------------------

\* An insights record: the three properties and the two generateInsights
\* adds, Undef when the property is missing.
InsightsRecord(insights, trends, recommendations, generatedAt, tf) ==
  [threw |-> FALSE, insights |-> insights, trends |-> trends,
   recommendations |-> recommendations, generatedAt |-> generatedAt,
   timeframe |-> tf]

NoDataInsights ==
  InsightsRecord(Arr(<<<<"N", "o", " ", "r", "e", "c", "e", "n", "t", " ", "d", "a", "t", "a", " ", "a", "v", "a", "i", "l", "a", "b", "l", "e", " ", "f", "o", "r", " ", "a", "n", "a", "l", "y", "s", "i", "s">>>>), Arr(<<>>),
                 Arr(<<<<"U", "p", "l", "o", "a", "d", " ", "m", "o", "r", "e", " ", "r", "e", "s", "u", "m", "e", "s", " ", "t", "o", " ", "g", "e", "n", "e", "r", "a", "t", "e", " ", "i", "n", "s", "i", "g", "h", "t", "s">>>>), Undef, Undef)

TryLaterInsights ==
  InsightsRecord(Arr(<<<<"U", "n", "a", "b", "l", "e", " ", "t", "o", " ", "g", "e", "n", "e", "r", "a", "t", "e", " ", "i", "n", "s", "i", "g", "h", "t", "s", " ", "a", "t", " ", "t", "h", "i", "s", " ", "t", "i", "m", "e">>>>), Arr(<<>>),
                 Arr(<<<<"P", "l", "e", "a", "s", "e", " ", "t", "r", "y", " ", "a", "g", "a", "i", "n", " ", "l", "a", "t", "e", "r">>>>), Undef, Undef)

\* new Date().toISOString() at the time of the call
NowISO == Str(<<"2", "0", "2", "4", "-", "0", "5", "-", "0", "1", "T", "1", "2", ":", "0", "0", ":", "0", "0", ".", "0", "0", "0", "Z">>)

\* the parsed reply: kind is Obj(0) for an object and the value itself
\* otherwise
ParsedInsights(kind, insights, trends, recommendations) ==
  [threw |-> FALSE, kind |-> kind, insights |-> insights, trends |-> trends,
   recommendations |-> recommendations]

InsightsSyntaxError == [ParsedInsights(Undef, Undef, Undef, Undef) EXCEPT !.threw = TRUE]

InsightKeys == {"insights", "trends", "recommendations"}

\* "key": as it stands in the reply text
KeyText(key) ==
  CASE key = "insights" -> <<"\"", "i", "n", "s", "i", "g", "h", "t", "s", "\"", ":">>
    [] key = "trends" -> <<"\"", "t", "r", "e", "n", "d", "s", "\"", ":">>
    [] key = "recommendations" -> <<"\"", "r", "e", "c", "o", "m", "m", "e", "n", "d", "a", "t", "i", "o", "n", "s", "\"", ":">>

\* the first position at or after p that holds c, 0 when there is none
RECURSIVE IndexOf(_, _, _)
IndexOf(s, c, p) ==
  IF p > Len(s) THEN 0
  ELSE IF s[p] = c THEN p
  ELSE IndexOf(s, c, p + 1)

\* a member value at the head of t: [] or ["one string"]
ParseInsightValue(t) ==
  IF OccursAt(t, 1, <<"[", "]">>)
  THEN [ok |-> TRUE, value |-> Arr(<<>>), rest |-> From(t, 3)]
  ELSE IF OccursAt(t, 1, <<"[", "\"">>)
  THEN LET q == IndexOf(t, "\"", 3) IN
       IF q > 0 /\ OccursAt(t, q, <<"\"", "]">>)
       THEN [ok |-> TRUE, value |-> Arr(<<SubSeq(t, 3, q - 1)>>), rest |-> From(t, q + 2)]
       ELSE [ok |-> FALSE, value |-> Undef, rest |-> <<>>]
  ELSE [ok |-> FALSE, value |-> Undef, rest |-> <<>>]

\* the members of an object from t on, added to obj
RECURSIVE ParseInsightMembers(_, _)
ParseInsightMembers(t, obj) ==
  LET keys == { k \in InsightKeys : OccursAt(t, 1, KeyText(k)) } IN
  IF keys = {} THEN InsightsSyntaxError
  ELSE LET key == CHOOSE k \in keys : TRUE
           v == ParseInsightValue(From(t, Len(KeyText(key)) + 1))
           next == [obj EXCEPT ![key] = v.value]
       IN IF ~v.ok THEN InsightsSyntaxError
          ELSE IF v.rest = <<"}">> THEN next
          ELSE IF Len(v.rest) > 0 /\ Head(v.rest) = ","
          THEN ParseInsightMembers(Tail(v.rest), next)
          ELSE InsightsSyntaxError

\* JSON.parse of a reply text that is null, [], {} or an object whose
\* members are insights, trends and recommendations with values [] or
\* ["..."]; any other text is a SyntaxError
JSONParseInsights(text) ==
  LET t == Trim(text) IN
  IF t = <<"n", "u", "l", "l">> THEN ParsedInsights(Null, Undef, Undef, Undef)
  ELSE IF t = <<"[", "]">> THEN ParsedInsights(Arr(<<>>), Undef, Undef, Undef)
  ELSE IF t = <<"{", "}">> THEN ParsedInsights(Obj(0), Undef, Undef, Undef)
  ELSE IF Len(t) > 0 /\ Head(t) = "{"
  THEN ParseInsightMembers(Tail(t), ParsedInsights(Obj(0), Undef, Undef, Undef))
  ELSE InsightsSyntaxError

\* !analyticsData || analyticsData.length === 0
NoAnalytics(rows) == ~Truthy(rows) \/ LengthOf(rows) = Num(0)

\* mutant of SpreadInsights: the fields the reply lacks are filled in
SpreadInsights_Defaults(parsedReply, tf) ==
  InsightsRecord(Or(parsedReply.insights, Arr(<<>>)), Or(parsedReply.trends, Arr(<<>>)),
                 Or(parsedReply.recommendations, Arr(<<>>)), NowISO, Str(tf))

\* {...insights, generatedAt: ..., timeframe: timeframe}
SpreadInsights(parsedReply, tf) ==
  InsightsRecord(parsedReply.insights, parsedReply.trends,
                 parsedReply.recommendations, NowISO, Str(tf))

\* generateInsights after the completion call settled with reply
\* [rejected, message, content]
FinishGenerateInsights(reply, tf) ==
  IF reply.rejected THEN TryLaterInsights
  ELSE LET parsedReply == JSONParseInsights(reply.content) IN
       IF parsedReply.threw THEN TryLaterInsights
       ELSE SpreadInsights(parsedReply, tf)

\* ------------------------------------------------------------------------
\* Regular expressions of pdfParser.js
\* ------------------------------------------------------------------------

UpperLetters == {"A", "B", "C", "D", "E", "F", "G", "H", "I", "J", "K", "L", "M", "N", "O", "P", "Q", "R", "S", "T", "U", "V", "W", "X", "Y", "Z"}

LowerLetters == {"a", "b", "c", "d", "e", "f", "g", "h", "i", "j", "k", "l", "m", "n", "o", "p", "q", "r", "s", "t", "u", "v", "w", "x", "y", "z"}

Letters == UpperLetters \cup LowerLetters

\* \w
WordChars == Letters \cup DigitChars \cup {"_"}

\* String.prototype.toLowerCase on one character
ToLowerChar(c) ==
  CASE c = "A" -> "a" [] c = "B" -> "b" [] c = "C" -> "c" [] c = "D" -> "d" [] c = "E" -> "e" [] c = "F" -> "f" [] c = "G" -> "g" [] c = "H" -> "h" [] c = "I" -> "i" [] c = "J" -> "j" [] c = "K" -> "k" [] c = "L" -> "l" [] c = "M" -> "m"
    [] c = "N" -> "n" [] c = "O" -> "o" [] c = "P" -> "p" [] c = "Q" -> "q" [] c = "R" -> "r" [] c = "S" -> "s" [] c = "T" -> "t" [] c = "U" -> "u" [] c = "V" -> "v" [] c = "W" -> "w" [] c = "X" -> "x" [] c = "Y" -> "y" [] c = "Z" -> "z"
    [] OTHER -> c

RECURSIVE ToLowerCase(_)
ToLowerCase(s) ==
  IF Len(s) = 0 THEN <<>>
  ELSE <<ToLowerChar(Head(s))>> \o ToLowerCase(Tail(s))

\* \b at position p: exactly one of the characters before and at p is a
\* word character
WordBoundary(s, p) ==
  (p > 1 /\ s[p - 1] \in WordChars) # (p <= Len(s) /\ s[p] \in WordChars)

\* An expression is a sequence of atoms; an atom is a character class
\* repeated min to max times (any number of times from min on when open),
\* greedy, or the assertion \b, or an optional group of atoms.
Rep(class, min, max) ==
  [wb |-> FALSE, cls |-> class, min |-> min, max |-> max, open |-> FALSE, grp |-> <<>>]

\* [class]{min,}
AtLeast(class, min) ==
  [wb |-> FALSE, cls |-> class, min |-> min, max |-> min, open |-> TRUE, grp |-> <<>>]

\* [class]?
Opt(class) == Rep(class, 0, 1)

\* one character
Lit(c) == Rep({c}, 1, 1)

\* one letter under the i flag
LitI(c) == Rep({ x \in Letters \cup {c} : ToLowerChar(x) = ToLowerChar(c) }, 1, 1)

WB == [wb |-> TRUE, cls |-> {}, min |-> 0, max |-> 0, open |-> FALSE, grp |-> <<>>]

\* (?:atoms)? : the group is tried before its absence
OptGroup(atoms) ==
  [wb |-> FALSE, cls |-> {}, min |-> 0, max |-> 0, open |-> FALSE, grp |-> atoms]

\* a literal word, and the same under the i flag
Word(w) == [k \in 1..Len(w) |-> Lit(w[k])]

WordI(w) == [k \in 1..Len(w) |-> LitI(w[k])]

\* The end (the position after the last character) of the match of the
\* atoms re[i..] at p that backtracking finds first, 0 when there is none:
\* each atom takes as many characters as it can and gives them back one by
\* one while the rest fails.
RECURSIVE MatchFrom(_, _, _, _), GiveBack(_, _, _, _, _)
MatchFrom(s, p, re, i) ==
  IF i > Len(re) THEN p
  ELSE IF re[i].wb
  THEN IF WordBoundary(s, p) THEN MatchFrom(s, p, re, i + 1) ELSE 0
  ELSE IF Len(re[i].grp) > 0
  THEN LET e == MatchFrom(s, p, re[i].grp \o SubSeq(re, i + 1, Len(re)), 1) IN
       IF e > 0 THEN e ELSE MatchFrom(s, p, re, i + 1)
  ELSE LET run == RunEnd(s, p, re[i].cls) - p
           n == IF re[i].open \/ run < re[i].max THEN run ELSE re[i].max
       IN GiveBack(s, p, re, i, n)

GiveBack(s, p, re, i, n) ==
  IF n < re[i].min THEN 0
  ELSE LET e == MatchFrom(s, p + n, re, i + 1) IN
       IF e > 0 THEN e ELSE GiveBack(s, p, re, i, n - 1)

\* alternatives a|b|... at p: the first that matches
RECURSIVE MatchAlt(_, _, _, _)
MatchAlt(s, p, alts, k) ==
  IF k > Len(alts) THEN 0
  ELSE LET e == MatchFrom(s, p, alts[k], 1) IN
       IF e > 0 THEN e ELSE MatchAlt(s, p, alts, k + 1)

\* the leftmost match at or after p: <<start, end>>, <<0, 0>> when none
RECURSIVE Search(_, _, _)
Search(s, p, alts) ==
  IF p > Len(s) + 1 THEN <<0, 0>>
  ELSE LET e == MatchAlt(s, p, alts, 1) IN
       IF e > 0 THEN <<p, e>> ELSE Search(s, p + 1, alts)

\* regex.test(s)
Test(s, alts) == Search(s, 1, alts)[1] > 0

\* s.match(regex) under the g flag: the matched strings, left to right
\* (the empty sequence stands for null)
RECURSIVE MatchAll(_, _, _)
MatchAll(s, p, alts) ==
  LET m == Search(s, p, alts) IN
  IF m[1] = 0 THEN <<>>
  ELSE <<SubSeq(s, m[1], m[2] - 1)>> \o
       MatchAll(s, IF m[2] > m[1] THEN m[2] ELSE m[2] + 1, alts)

\* /\b[A-Za-z0-9._%+-]+@[A-Za-z0-9.-]+\.[A-Z|a-z]{2,}\b/g
EmailRegex ==
  << <<WB, AtLeast(Letters \cup DigitChars \cup {".", "_", "%", "+", "-"}, 1),
       Lit("@"), AtLeast(Letters \cup DigitChars \cup {".", "-"}, 1),
       Lit("."), AtLeast(Letters \cup {"|"}, 2), WB>> >>

\* ------------------------------------------------------------------------
\* PDFParser.extractBasicInfo
\* ------------------------------------------------------------------------

\* [-.\s]
PhoneSeparators == {"-", "."} \cup SpaceChars

\* \(?\d{3}\)?[-.\s]?\d{3}[-.\s]?\d{4}
PhoneNumberPart ==
  <<Opt({"("}), Rep(DigitChars, 3, 3), Opt({")"}), Opt(PhoneSeparators),
    Rep(DigitChars, 3, 3), Opt(PhoneSeparators), Rep(DigitChars, 4, 4)>>

\* /(\+?\d{1,3}[-.\s]?)?\(?\d{3}\)?[-.\s]?\d{3}[-.\s]?\d{4}/g : the optional
\* group is tried first
PhoneRegex ==
  << <<Opt({"+"}), Rep(DigitChars, 1, 3), Opt(PhoneSeparators)>> \o PhoneNumberPart,
     PhoneNumberPart >>

\* /([A-Z][a-z]+,?\s*[A-Z]{2})|([A-Z][a-z]+\s*,\s*[A-Z][a-z]+)/g
LocationRegex ==
  << <<Rep(UpperLetters, 1, 1), AtLeast(LowerLetters, 1), Opt({","}),
       AtLeast(SpaceChars, 0), Rep(UpperLetters, 2, 2)>>,
     <<Rep(UpperLetters, 1, 1), AtLeast(LowerLetters, 1), AtLeast(SpaceChars, 0),
       Lit(","), AtLeast(SpaceChars, 0), Rep(UpperLetters, 1, 1),
       AtLeast(LowerLetters, 1)>> >>

\* /\d{3,}/
DigitRunRegex == << <<AtLeast(DigitChars, 3)>> >>

\* /(resume|cv|curriculum|vitae)/i
HeaderRegex ==
  <<WordI(<<"r", "e", "s", "u", "m", "e">>), WordI(<<"c", "v">>), WordI(<<"c", "u", "r", "r", "i", "c", "u", "l", "u", "m">>), WordI(<<"v", "i", "t", "a", "e">>)>>

\* /^[A-Za-z][A-Za-z'.-]*$/.test(word)
NameWordTest(word) ==
  MatchFrom(word, 1, <<Rep(Letters, 1, 1), AtLeast(Letters \cup {"'", ".", "-"}, 0)>>, 1)
    = Len(word) + 1

\* s.split(sep) for a one-character sep
RECURSIVE Split(_, _)
Split(s, sep) ==
  LET q == IndexOf(s, sep, 1) IN
  IF q = 0 THEN <<s>>
  ELSE <<SubSeq(s, 1, q - 1)>> \o Split(From(s, q + 1), sep)

\* the first position at or after p whose character is in class, 0 when
\* there is none
RECURSIVE FirstIn(_, _, _)
FirstIn(s, class, p) ==
  IF p > Len(s) THEN 0
  ELSE IF s[p] \in class THEN p
  ELSE FirstIn(s, class, p + 1)

\* s.split(/\s+/)
RECURSIVE SplitBlanks(_)
SplitBlanks(s) ==
  LET q == FirstIn(s, SpaceChars, 1) IN
  IF q = 0 THEN <<s>>
  ELSE <<SubSeq(s, 1, q - 1)>> \o SplitBlanks(From(s, RunEnd(s, q, SpaceChars)))

NameLineLimit == 5

MinNameLength == 3

MaxNameLength == 50

MinNameWords == 2

MaxNameWords == 4

\* text.split('\n').filter(line => line.trim().length > 0)
NonBlankLines(s) == SelectSeq(Split(s, "\n"), LAMBDA line : Len(Trim(line)) > 0)

\* the test a line has to pass to be taken as the name (lines 97-109)
QualifiesAsName(line) ==
  LET trimmedLine == Trim(line)
      words == SplitBlanks(trimmedLine)
  IN /\ Len(trimmedLine) > MinNameLength
     /\ Len(trimmedLine) < MaxNameLength
     /\ ~Includes(trimmedLine, <<"@">>)
     /\ ~Test(trimmedLine, DigitRunRegex)
     /\ ~Test(trimmedLine, HeaderRegex)
     /\ Len(words) >= MinNameWords
     /\ Len(words) <= MaxNameWords
     /\ \A k \in 1..Len(words) : NameWordTest(words[k]) /\ Len(words[k]) > 1

\* mutant of FirstQualifying: a later line that qualifies replaces an
\* earlier one
RECURSIVE FirstQualifying_NoBreak(_, _)
FirstQualifying_NoBreak(lines, k) ==
  IF k > Len(lines) THEN Null
  ELSE LET later == FirstQualifying_NoBreak(lines, k + 1) IN
       IF later # Null THEN later
       ELSE IF QualifiesAsName(lines[k]) THEN Str(Trim(lines[k]))
       ELSE Null

\* the loop over firstFewLines: the first line that qualifies, trimmed
RECURSIVE FirstQualifying(_, _)
FirstQualifying(lines, k) ==
  IF k > Len(lines) THEN Null
  ELSE IF QualifiesAsName(lines[k]) THEN Str(Trim(lines[k]))
  ELSE FirstQualifying(lines, k + 1)

CandidateNameOf(s) == FirstQualifying(Slice(NonBlankLines(s), NameLineLimit), 1)

\* emails[0], locations[0]: the first match or null
FirstMatch(s, regex) ==
  LET m == Search(s, 1, regex) IN
  IF m[1] = 0 THEN Null ELSE Str(SubSeq(s, m[1], m[2] - 1))

\* phones[0].replace(/\s+/g, ' ').trim()
PhoneOf(s) ==
  LET m == Search(s, 1, PhoneRegex) IN
  IF m[1] = 0 THEN Null
  ELSE Str(Trim(CollapseRuns(SubSeq(s, m[1], m[2] - 1), SpaceChars, 1, <<" ">>)))

AllNullInfo ==
  [threw |-> FALSE, candidateName |-> Null, email |-> Null, phone |-> Null,
   location |-> Null]

\* mutant of BasicInfoCatch: the error is passed on
BasicInfoCatch_Rethrow == [AllNullInfo EXCEPT !.threw = TRUE]

\* the catch block
BasicInfoCatch == AllNullInfo

\* an object that answers match as the string s does and has no split
\* method: what text.match and text.split ask of their receiver
Matcher(s) == JV("matcher", 0, 0, s, <<>>)

\* basicInfo as it stands at line 91, after the email and the phone blocks
DerivedBeforeSplit(text) ==
  [AllNullInfo EXCEPT !.email = FirstMatch(text.s, EmailRegex),
                      !.phone = PhoneOf(text.s)]

\* extractBasicInfo(text): text.match raises a TypeError on a value without
\* a match method, text.split on a value without a split method; the one
\* catch block around the four derivations answers both with its own record
extractBasicInfo(text) ==
  IF text.t \notin {"str", "matcher"} THEN BasicInfoCatch
  ELSE IF text.t = "matcher" THEN BasicInfoCatch
  ELSE [threw |-> FALSE,
        candidateName |-> CandidateNameOf(text.s),
        email |-> FirstMatch(text.s, EmailRegex),
        phone |-> PhoneOf(text.s),
        location |-> FirstMatch(text.s, LocationRegex)]

\* ------------------------------------------------------------------------
\* PDFParser.extractExperience (totalYears; the company names it also
\* collects from the same text have no part in totalYears)
\* ------------------------------------------------------------------------

\* (\d+)\+?\s*years?\s*
YearsPart ==
  <<AtLeast(DigitChars, 1), Opt({"+"}), AtLeast(SpaceChars, 0)>> \o
  WordI(<<"y", "e", "a", "r">>) \o <<Opt({"s", "S"}), AtLeast(SpaceChars, 0)>>

\* /(\d+)\+?\s*years?\s*(?:of\s*)?experience/gi
YearsOfExperienceRegex ==
  << YearsPart \o <<OptGroup(WordI(<<"o", "f">>) \o <<AtLeast(SpaceChars, 0)>>)>> \o
     WordI(<<"e", "x", "p", "e", "r", "i", "e", "n", "c", "e">>) >>

\* /experience[:\s]*(\d+)\+?\s*years?/gi
ExperienceYearsRegex ==
  << WordI(<<"e", "x", "p", "e", "r", "i", "e", "n", "c", "e">>) \o
     <<AtLeast({":"} \cup SpaceChars, 0), AtLeast(DigitChars, 1), Opt({"+"}),
       AtLeast(SpaceChars, 0)>> \o
     WordI(<<"y", "e", "a", "r">>) \o <<Opt({"s", "S"})>> >>

\* /(\d+)\+?\s*years?\s*in/gi
YearsInRegex == << YearsPart \o WordI(<<"i", "n">>) >>

experiencePatterns == <<YearsOfExperienceRegex, ExperienceYearsRegex, YearsInRegex>>

\* parseInt(match.match(/\d+/)[0])
YearsOfMatch(match) ==
  LET m == Search(match, 1, << <<AtLeast(DigitChars, 1)>> >>) IN
  DigitsValue(SubSeq(match, m[1], m[2] - 1), 0)

\* mutant of LargerYears: the later match wins
LargerYears_Later(years, maxYears) == years

\* if (years > maxYears) maxYears = years
LargerYears(years, maxYears) == IF years > maxYears THEN years ELSE maxYears

\* the inner loop over the matches of one pattern
RECURSIVE MaxOverMatches(_, _, _)
MaxOverMatches(matches, k, maxYears) ==
  IF k > Len(matches) THEN maxYears
  ELSE MaxOverMatches(matches, k + 1, LargerYears(YearsOfMatch(matches[k]), maxYears))

\* the outer loop over the patterns
RECURSIVE MaxOverPatterns(_, _, _)
MaxOverPatterns(s, k, maxYears) ==
  IF k > Len(experiencePatterns) THEN maxYears
  ELSE MaxOverPatterns(s, k + 1,
         MaxOverMatches(MatchAll(s, 1, experiencePatterns[k]), 1, maxYears))

\* extractExperience(text): text.match raises a TypeError on anything but a
\* string, and the catch block returns totalYears 0
extractExperience(text) ==
  IF text.t # "str" THEN [threw |-> FALSE, totalYears |-> Num(0)]
  ELSE [threw |-> FALSE, totalYears |-> Num(MaxOverPatterns(text.s, 1, 0))]

\* ------------------------------------------------------------------------
\* PDFParser.extractSkills
\* ------------------------------------------------------------------------

commonSkills ==
  << <<"j", "a", "v", "a", "s", "c", "r", "i", "p", "t">>,
     <<"p", "y", "t", "h", "o", "n">>,
     <<"j", "a", "v", "a">>,
     <<"c", "+", "+">>,
     <<"c", "#">>,
     <<"p", "h", "p">>,
     <<"r", "u", "b", "y">>,
     <<"g", "o">>,
     <<"r", "u", "s", "t">>,
     <<"s", "w", "i", "f", "t">>,
     <<"k", "o", "t", "l", "i", "n">>,
     <<"t", "y", "p", "e", "s", "c", "r", "i", "p", "t">>,
     <<"s", "c", "a", "l", "a">>,
     <<"r">>,
     <<"m", "a", "t", "l", "a", "b">>,
     <<"s", "q", "l">>,
     <<"h", "t", "m", "l">>,
     <<"c", "s", "s">>,
     <<"r", "e", "a", "c", "t">>,
     <<"a", "n", "g", "u", "l", "a", "r">>,
     <<"v", "u", "e">>,
     <<"n", "o", "d", "e", ".", "j", "s">>,
     <<"e", "x", "p", "r", "e", "s", "s">>,
     <<"d", "j", "a", "n", "g", "o">>,
     <<"f", "l", "a", "s", "k">>,
     <<"s", "p", "r", "i", "n", "g">>,
     <<"l", "a", "r", "a", "v", "e", "l">>,
     <<"r", "a", "i", "l", "s">>,
     <<"a", "s", "p", ".", "n", "e", "t">>,
     <<"j", "q", "u", "e", "r", "y">>,
     <<"b", "o", "o", "t", "s", "t", "r", "a", "p">>,
     <<"t", "a", "i", "l", "w", "i", "n", "d">>,
     <<"m", "y", "s", "q", "l">>,
     <<"p", "o", "s", "t", "g", "r", "e", "s", "q", "l">>,
     <<"m", "o", "n", "g", "o", "d", "b">>,
     <<"r", "e", "d", "i", "s">>,
     <<"e", "l", "a", "s", "t", "i", "c", "s", "e", "a", "r", "c", "h">>,
     <<"o", "r", "a", "c", "l", "e">>,
     <<"s", "q", "l", "i", "t", "e">>,
     <<"a", "w", "s">>,
     <<"a", "z", "u", "r", "e">>,
     <<"g", "c", "p">>,
     <<"d", "o", "c", "k", "e", "r">>,
     <<"k", "u", "b", "e", "r", "n", "e", "t", "e", "s">>,
     <<"j", "e", "n", "k", "i", "n", "s">>,
     <<"g", "i", "t">>,
     <<"c", "i", "/", "c", "d">>,
     <<"l", "i", "n", "u", "x">>,
     <<"w", "i", "n", "d", "o", "w", "s">>,
     <<"m", "a", "c", "o", "s">>,
     <<"n", "g", "i", "n", "x">>,
     <<"a", "p", "a", "c", "h", "e">>,
     <<"m", "i", "c", "r", "o", "s", "e", "r", "v", "i", "c", "e", "s">>,
     <<"a", "p", "i">>,
     <<"r", "e", "s", "t", "f", "u", "l">>,
     <<"g", "r", "a", "p", "h", "q", "l">>,
     <<"w", "e", "b", "s", "o", "c", "k", "e", "t", "s">>,
     <<"t", "c", "p", "/", "i", "p">>,
     <<"l", "e", "a", "d", "e", "r", "s", "h", "i", "p">>,
     <<"c", "o", "m", "m", "u", "n", "i", "c", "a", "t", "i", "o", "n">>,
     <<"t", "e", "a", "m", "w", "o", "r", "k">>,
     <<"p", "r", "o", "b", "l", "e", "m", " ", "s", "o", "l", "v", "i", "n", "g">>,
     <<"a", "n", "a", "l", "y", "t", "i", "c", "a", "l">>,
     <<"p", "r", "o", "j", "e", "c", "t", " ", "m", "a", "n", "a", "g", "e", "m", "e", "n", "t">>,
     <<"a", "g", "i", "l", "e">>,
     <<"s", "c", "r", "u", "m">>,
     <<"k", "a", "n", "b", "a", "n">> >>

\* new RegExp('\\b' + escaped skill + '\\b', 'gi'): the skill, every
\* character of it taken literally, between two \b
SkillRegex(skill) == << <<WB>> \o WordI(skill) \o <<WB>> >>

\* the expressions of the loop, one for each entry of commonSkills
RECURSIVE SkillRegexesUpTo(_)
SkillRegexesUpTo(k) ==
  IF k = 0 THEN <<>>
  ELSE Append(SkillRegexesUpTo(k - 1), SkillRegex(commonSkills[k]))

SkillRegexes == SkillRegexesUpTo(Len(commonSkills))

\* the loop over commonSkills: the skills whose expression is found in
\* textLower, in the order of the list
FoundSkills(textLower) ==
  LET found == SelectSeq([k \in 1..Len(commonSkills) |-> k],
                         LAMBDA k : Test(textLower, SkillRegexes[k]))
  IN [j \in 1..Len(found) |-> commonSkills[found[j]]]

\* [...new Set(list)] : every entry once, at the place of its first
\* occurrence
RECURSIVE Dedupe(_, _)
Dedupe(list, seen) ==
  IF Len(list) = 0 THEN <<>>
  ELSE IF Head(list) \in seen THEN Dedupe(Tail(list), seen)
  ELSE <<Head(list)>> \o Dedupe(Tail(list), seen \cup {Head(list)})

\* mutant of SkillsAndEmails: the emails are left out
SkillsAndEmails_NoEmails(s) == Dedupe(FoundSkills(ToLowerCase(s)), {})

\* foundSkills after both steps, without duplicates
SkillsAndEmails(s) ==
  Dedupe(FoundSkills(ToLowerCase(s)) \o MatchAll(s, 1, EmailRegex), {})

\* extractSkills(text): text.toLowerCase raises a TypeError on anything
\* but a string, and the catch block returns []
extractSkills(text) ==
  IF text.t # "str" THEN [threw |-> FALSE, skills |-> <<>>]
  ELSE [threw |-> FALSE, skills |-> SkillsAndEmails(text.s)]

\* ------------------------------------------------------------------------
\* State
\* ------------------------------------------------------------------------

VARIABLES
  aiResponse,   \* the parsed reply handed to processAIResponse
  basicInfo,    \* the BasicInfo record handed to processAIResponse
  pcCoerce,     \* "idle" | "called" | "returned" | "threw"
  coerced,      \* the outcome of the last processAIResponse call
  prevCall,     \* path and candidateName of the call before the last one
  nCalls,       \* number of completed processAIResponse calls
  docText,      \* the text of the document at hand
  pcText,       \* sanitizeText calls made on docText: "start" | "once" | "twice"
  cleanedOnce,  \* sanitizeText(docText)
  cleanedTwice, \* sanitizeText(sanitizeText(docText))
  pcExtract,    \* extractText: "idle" | "parsing" | "returned" | "threw"
  pdfData,      \* what pdf(buffer) settled with
  extracted,    \* the outcome of extractText
  resumes,      \* batchScoreResumes: the documents of the batch
  idx,          \* the position of the loop in resumes
  pcBatch,      \* "next" | "awaiting" | "settled" | "scored" | "sleeping" | "done"
  results,      \* the entries pushed so far
  completion,   \* what the completion call of the resume at hand settled with
  scoreOutcome, \* the outcome of scoreResume for the resume at hand
  clock,        \* milliseconds since the batch began
  inFlight,     \* completion calls issued and not yet settled
  callLog,      \* history: start and end time of every completion call
  scoreLog,     \* history: resumeId and outcome of every scoreResume call
  parseText,    \* the argument of the pdfParser helper at hand
  pcParse,      \* the helper call: "idle" | "called" | "returned" | "threw"
  parsed,       \* the outcome of the helper call
  pdfBuffer,    \* validatePDF: the uploaded buffer
  pcValidate,   \* validatePDF: "idle" | "parsing" | "returned" | "threw"
  validation,   \* the outcome of validatePDF
  timeframe,    \* generateInsights: the timeframe argument
  pcInsights,   \* generateInsights: "idle" | "fetching" | "fetched" | "completing" | "completed" | "returned" | "threw"
  analytics,    \* what getCompanyAnalytics settled with
  insightsReply,\* what the completion call of generateInsights settled with
  insightsOut,  \* the outcome of generateInsights
  store,        \* the resumes table: one row per resume id
  files,        \* the paths held by the 'resumes' bucket of object storage
  tokens,       \* tokens_remaining of every company, as the database has it
  reqs,         \* the HTTP requests: handler, parameters, position, response
  nextId,       \* the next fresh id (uuid of a path, id of a new row)
  events        \* the outside calls the handlers have made

coerceVars == <<aiResponse, basicInfo, pcCoerce, coerced, prevCall, nCalls>>

textVars == <<docText, pcText, cleanedOnce, cleanedTwice, pcExtract, pdfData, extracted>>

batchVars == <<resumes, idx, pcBatch, results, completion, scoreOutcome,
               clock, inFlight, callLog, scoreLog>>

parseVars == <<parseText, pcParse, parsed>>

validateVars == <<pdfBuffer, pcValidate, validation>>

insightVars == <<timeframe, pcInsights, analytics, insightsReply, insightsOut>>

controllerVars == <<store, files, tokens, reqs, nextId, events>>

helperVars == <<parseVars, validateVars, insightVars, controllerVars>>

vars == <<coerceVars, textVars, batchVars, helperVars>>

\* calls of processAIResponse made with one BasicInfo record
MaxCalls == 2

NoCall == [path |-> "none", candidateName |-> Undef]

\* no outcome yet
NoOutcome == [threw |-> FALSE, path |-> "none", value |-> Fallback([candidateName |-> Undef])]

CoerceIdle ==
  /\ aiResponse = EmptyObject
  /\ pcCoerce = "idle"
  /\ coerced = NoOutcome
  /\ prevCall = NoCall
  /\ nCalls = 0

NoPdfData == [threw |-> FALSE, message |-> <<>>, text |-> <<>>]

TextIdle ==
  /\ docText = <<>>
  /\ pcText = "start"
  /\ cleanedOnce = <<>>
  /\ cleanedTwice = <<>>
  /\ pcExtract = "idle"
  /\ pdfData = NoPdfData
  /\ extracted = NoExtraction

NoCompletion == [rejected |-> FALSE, message |-> <<>>, content |-> <<>>, totalTokens |-> 0]

NoScoreOutcome == [threw |-> FALSE, message |-> <<>>, value |-> NoScoring, tokensUsed |-> 0]

BatchIdle ==
  /\ resumes = <<>>
  /\ idx = 1
  /\ pcBatch = "done"
  /\ results = <<>>
  /\ completion = NoCompletion
  /\ scoreOutcome = NoScoreOutcome
  /\ clock = 0
  /\ inFlight = 0
  /\ callLog = <<>>
  /\ scoreLog = <<>>

NoParsed == [threw |-> FALSE, fn |-> "none"]

ParseIdle ==
  /\ parseText = Undef
  /\ pcParse = "idle"
  /\ parsed = NoParsed

NoBuffer == [kind |-> "undef", head |-> <<>>, length |-> 0]

ValidateIdle ==
  /\ pdfBuffer = NoBuffer
  /\ pcValidate = "idle"
  /\ validation = NoValidation

NoSettled == [rejected |-> FALSE, message |-> <<>>]

InsightsIdle ==
  /\ timeframe = <<>>
  /\ pcInsights = "idle"
  /\ analytics = NoSettled
  /\ insightsReply = NoSettled
  /\ insightsOut = NoSettled

ControllerIdle ==
  /\ store = <<>>
  /\ files = {}
  /\ tokens = <<>>
  /\ reqs = <<>>
  /\ nextId = 1
  /\ events = {}

HelperIdle == ParseIdle /\ ValidateIdle /\ InsightsIdle /\ ControllerIdle

InitCoerce ==
  /\ basicInfo \in BasicInfos
  /\ CoerceIdle
  /\ TextIdle
  /\ BatchIdle
  /\ HelperIdle

\* a caller hands a parsed reply to processAIResponse
CallProcessAIResponse ==
  /\ pcCoerce \in {"idle", "returned"}
  /\ nCalls < MaxCalls
  /\ \E r \in Replies : aiResponse' = r
  /\ pcCoerce' = "called"
  /\ prevCall' = IF pcCoerce = "returned"
                 THEN [path |-> coerced.path,
                       candidateName |-> coerced.value.candidateName]
                 ELSE prevCall
  /\ coerced' = NoOutcome
  /\ UNCHANGED <<basicInfo, nCalls, textVars, batchVars, helperVars>>

\* processAIResponse runs to its return or to an exception
ReturnProcessAIResponse ==
  /\ pcCoerce = "called"
  /\ coerced' = processAIResponse(aiResponse, basicInfo)
  /\ pcCoerce' = IF coerced'.threw THEN "threw" ELSE "returned"
  /\ nCalls' = nCalls + 1
  /\ UNCHANGED <<aiResponse, basicInfo, prevCall, textVars, batchVars, helperVars>>

NextCoerce ==
  \/ CallProcessAIResponse
  \/ ReturnProcessAIResponse

SpecCoerce == InitCoerce /\ [][NextCoerce]_vars

\* ------------------------------------------------------------------------
\* Documents: sanitizeText and extractText
\* ------------------------------------------------------------------------

\* pieces a document's text is made of, per document
MaxChunks == 3

Chunks ==
  { <<"a">>, <<" ">>, <<"\n">>, <<"\r">>, <<"\f">>, <<NBSP>>, <<"7">>,
    <<"-">>, <<EMDASH>>, <<".">>, <<ELLIPSIS>>,
    <<"P", "a", "g", "e", " ", "1", " ", "o", "f", " ", "2">>,
    ConfidentialMarker, EmailFooterMarker }

RECURSIVE Texts(_)
Texts(n) ==
  IF n = 0 THEN {<<>>}
  ELSE LET shorter == Texts(n - 1) IN
       shorter \cup { t \o c : t \in shorter, c \in Chunks }

\* messages of the errors pdf() rejects with
PdfErrors ==
  { <<"I", "n", "v", "a", "l", "i", "d", " ", "P", "D", "F", " ", "s", "t", "r", "u", "c", "t", "u", "r", "e">>,
    <<"F", "i", "l", "e", " ", "i", "s", " ", "e", "n", "c", "r", "y", "p", "t", "e", "d">>,
    <<"N", "o", " ", "p", "a", "s", "s", "w", "o", "r", "d", " ", "g", "i", "v", "e", "n">>,
    <<"b", "a", "d", " ", "X", "R", "e", "f", " ", "e", "n", "t", "r", "y">>,
    <<"I", "n", "v", "a", "l", "i", "d", " ", "P", "D", "F", ":", " ", "e", "n", "c", "r", "y", "p", "t", "e", "d", " ", "t", "r", "a", "i", "l", "e", "r">> }

\* the BasicInfo of a document whose fields were not found
NoBasicInfo ==
  [candidateName |-> Null, email |-> Null, phone |-> Null, location |-> Null]

InitText ==
  /\ basicInfo = NoBasicInfo
  /\ CoerceIdle
  /\ docText \in Texts(MaxChunks)
  /\ pcText = "start"
  /\ cleanedOnce = <<>>
  /\ cleanedTwice = <<>>
  /\ pcExtract = "idle"
  /\ pdfData = NoPdfData
  /\ extracted = NoExtraction
  /\ BatchIdle
  /\ HelperIdle

\* sanitizeText(docText)
SanitizeOnce ==
  /\ pcText = "start"
  /\ cleanedOnce' = sanitizeText(docText)
  /\ pcText' = "once"
  /\ UNCHANGED <<coerceVars, docText, cleanedTwice, pcExtract, pdfData, extracted, batchVars, helperVars>>

\* sanitizeText applied to its own result
SanitizeAgain ==
  /\ pcText = "once"
  /\ cleanedTwice' = sanitizeText(cleanedOnce)
  /\ pcText' = "twice"
  /\ UNCHANGED <<coerceVars, docText, cleanedOnce, pcExtract, pdfData, extracted, batchVars, helperVars>>

\* extractText awaits pdf(buffer), which resolves with the document's text
PdfResolves ==
  /\ pcExtract = "idle"
  /\ pdfData' = [threw |-> FALSE, message |-> <<>>, text |-> docText]
  /\ pcExtract' = "parsing"
  /\ UNCHANGED <<coerceVars, docText, pcText, cleanedOnce, cleanedTwice, extracted, batchVars, helperVars>>

\* extractText awaits pdf(buffer), which rejects: no text was decoded
PdfRejects ==
  /\ pcExtract = "idle"
  /\ docText = <<>>
  /\ \E m \in PdfErrors :
       pdfData' = [threw |-> TRUE, message |-> m, text |-> <<>>]
  /\ pcExtract' = "parsing"
  /\ UNCHANGED <<coerceVars, docText, pcText, cleanedOnce, cleanedTwice, extracted, batchVars, helperVars>>

\* the rest of extractText, to its return or its throw
FinishExtractText ==
  /\ pcExtract = "parsing"
  /\ extracted' = extractText(pdfData)
  /\ pcExtract' = IF extracted'.threw THEN "threw" ELSE "returned"
  /\ UNCHANGED <<coerceVars, docText, pcText, cleanedOnce, cleanedTwice, pdfData, batchVars, helperVars>>

NextText ==
  \/ SanitizeOnce
  \/ SanitizeAgain

SpecText == InitText /\ [][NextText]_vars

NextExtract ==
  \/ PdfResolves
  \/ PdfRejects
  \/ FinishExtractText

SpecExtract == InitText /\ [][NextExtract]_vars

\* ------------------------------------------------------------------------
\* Batches: batchScoreResumes over scoreResume
\* ------------------------------------------------------------------------

\* documents in a batch
MaxBatch == 3

ResumeId(k) == <<"r", DigitChar(k)>>

NamedInfo(n) ==
  [candidateName |-> n, email |-> Null, phone |-> Null, location |-> Null]

\* the k-th document of a batch
ResumeAt(k) ==
  [id |-> ResumeId(k),
   basicInfo |-> IF k % 2 = 1 THEN NamedInfo(Str(<<"A", "n", "n">>))
                 ELSE NamedInfo(Null)]

Batches == { [k \in 1..n |-> ResumeAt(k)] : n \in 0..MaxBatch }

\* reply texts of the completion call
Contents ==
  { <<"{", "}">>,
    <<"{", "\"", "o", "v", "e", "r", "a", "l", "l", "S", "c", "o", "r", "e", "\"", ":", "8", "5", "}">>,
    <<"n", "u", "l", "l">>,
    <<"I", " ", "c", "a", "n", "n", "o", "t", " ", "s", "c", "o", "r", "e", " ", "t", "h", "i", "s", " ", "r", "e", "s", "u", "m", "e", ".">>,
    <<"{", "\"", "o", "v", "e", "r", "a", "l", "l", "S", "c", "o", "r", "e", "\"", ":">> }

\* messages of the errors the completion call rejects with
ApiErrors ==
  { <<"4", "2", "9", " ", "R", "a", "t", "e", " ", "l", "i", "m", "i", "t", " ", "r", "e", "a", "c", "h", "e", "d">> }

\* how long a completion call may take, in milliseconds
CallDurations == {0, 250}

InitBatch ==
  /\ basicInfo = NoBasicInfo
  /\ CoerceIdle
  /\ TextIdle
  /\ resumes \in Batches
  /\ idx = 1
  /\ pcBatch = "next"
  /\ results = <<>>
  /\ completion = NoCompletion
  /\ scoreOutcome = NoScoreOutcome
  /\ clock = 0
  /\ inFlight = 0
  /\ callLog = <<>>
  /\ scoreLog = <<>>
  /\ HelperIdle

\* mutant of BatchCallScoreResume: the loop does not await the call before
\* it issues the next one
BatchCallScoreResume_NoAwait ==
  /\ pcBatch \in {"next", "awaiting"}
  /\ Len(callLog) < Len(resumes)
  /\ pcBatch' = "awaiting"
  /\ inFlight' = inFlight + 1
  /\ callLog' = Append(callLog, [start |-> clock, end |-> clock, settled |-> FALSE, rejected |-> FALSE])
  /\ UNCHANGED <<coerceVars, textVars, helperVars, resumes, idx, results, completion,
                 scoreOutcome, clock, scoreLog>>

\* the loop takes the next resume: scoreResume builds the prompt and issues
\* the completion call
BatchCallScoreResume ==
  /\ pcBatch = "next"
  /\ idx <= Len(resumes)
  /\ pcBatch' = "awaiting"
  /\ inFlight' = inFlight + 1
  /\ callLog' = Append(callLog, [start |-> clock, end |-> clock, settled |-> FALSE, rejected |-> FALSE])
  /\ UNCHANGED <<coerceVars, textVars, helperVars, resumes, idx, results, completion,
                 scoreOutcome, clock, scoreLog>>

\* the loop is over: return results
BatchReturn ==
  /\ pcBatch = "next"
  /\ idx > Len(resumes)
  /\ pcBatch' = "done"
  /\ UNCHANGED <<coerceVars, textVars, helperVars, resumes, idx, results, completion,
                 scoreOutcome, clock, inFlight, callLog, scoreLog>>

\* the completion call settles after d milliseconds with c
SettleCompletion(c, d) ==
  /\ pcBatch = "awaiting"
  /\ completion' = c
  /\ clock' = clock + d
  /\ inFlight' = inFlight - 1
  /\ callLog' = [callLog EXCEPT ![Len(callLog)] =
                   [start |-> @.start, end |-> clock + d, settled |-> TRUE,
                    rejected |-> c.rejected]]
  /\ pcBatch' = "settled"
  /\ UNCHANGED <<coerceVars, textVars, helperVars, resumes, idx, results, scoreOutcome, scoreLog>>

\* the completion call returns a reply
CompletionResolves ==
  \E text \in Contents, d \in CallDurations :
    SettleCompletion([rejected |-> FALSE, message |-> <<>>, content |-> text,
                      totalTokens |-> 1200], d)

\* the completion call fails
CompletionRejects ==
  \E m \in ApiErrors, d \in CallDurations :
    SettleCompletion([rejected |-> TRUE, message |-> m, content |-> <<>>,
                      totalTokens |-> 0], d)

\* the rest of scoreResume, to its return or its throw
FinishScoreResume ==
  /\ pcBatch = "settled"
  /\ scoreOutcome' = scoreResume(completion, resumes[idx].basicInfo)
  /\ scoreLog' = Append(scoreLog, [resumeId |-> resumes[idx].id,
                                   threw |-> scoreOutcome'.threw])
  /\ pcBatch' = "scored"
  /\ UNCHANGED <<coerceVars, textVars, helperVars, resumes, idx, results, completion,
                 clock, inFlight, callLog>>

\* scoreResume returned: push the entry and start the pause
BatchPushSuccess ==
  /\ pcBatch = "scored"
  /\ ~scoreOutcome.threw
  /\ results' = Append(results, SuccessEntry(resumes[idx], scoreOutcome))
  /\ pcBatch' = "sleeping"
  /\ UNCHANGED <<coerceVars, textVars, helperVars, resumes, idx, completion, scoreOutcome,
                 clock, inFlight, callLog, scoreLog>>

\* the pause is over: on to the next resume
BatchWake ==
  /\ pcBatch = "sleeping"
  /\ clock' = clock + SleepMs
  /\ idx' = idx + 1
  /\ pcBatch' = "next"
  /\ UNCHANGED <<coerceVars, textVars, helperVars, resumes, results, completion, scoreOutcome,
                 inFlight, callLog, scoreLog>>

\* mutant of BatchCatch: the failure ends the batch
BatchCatch_Abort ==
  /\ pcBatch = "scored"
  /\ scoreOutcome.threw
  /\ results' = Append(results, FailureEntry(resumes[idx], scoreOutcome))
  /\ pcBatch' = "done"
  /\ UNCHANGED <<coerceVars, textVars, helperVars, resumes, idx, completion, scoreOutcome,
                 clock, inFlight, callLog, scoreLog>>

\* scoreResume threw: the catch block pushes a failure entry and the loop
\* goes on
BatchCatch ==
  /\ pcBatch = "scored"
  /\ scoreOutcome.threw
  /\ results' = Append(results, FailureEntry(resumes[idx], scoreOutcome))
  /\ idx' = idx + 1
  /\ pcBatch' = "next"
  /\ UNCHANGED <<coerceVars, textVars, helperVars, resumes, completion, scoreOutcome,
                 clock, inFlight, callLog, scoreLog>>

NextBatch ==
  \/ BatchCallScoreResume
  \/ BatchReturn
  \/ CompletionRejects
  \/ CompletionResolves
  \/ FinishScoreResume
  \/ BatchPushSuccess
  \/ BatchWake
  \/ BatchCatch

SpecBatch == InitBatch /\ [][NextBatch]_vars

\* ------------------------------------------------------------------------
\* validatePDF on an uploaded buffer
\* ------------------------------------------------------------------------

\* the first bytes of the uploads: %PDF, %PDG, PK\3\4, <htm, %pdf, " %PD",
\* and four bytes that are not UTF-8
Heads ==
  { <<37, 80, 68, 70>>, <<37, 80, 68, 71>>, <<80, 75, 3, 4>>,
    <<60, 104, 116, 109>>, <<37, 112, 100, 102>>, <<32, 37, 80, 68>>,
    <<255, 216, 255, 224>> }

Sizes == {4, 100, 1023, 1024, 1025, 2048, 4096, 65536}

Buffers ==
  { [kind |-> "buffer", head |-> h, length |-> n] : h \in Heads, n \in Sizes } \cup
  { [kind |-> "buffer", head |-> SubSeq(h, 1, n), length |-> n] :
      h \in Heads, n \in 0..(SignatureLen - 1) } \cup
  { [kind |-> "null", head |-> <<>>, length |-> 0],
    [kind |-> "undef", head |-> <<>>, length |-> 0] }

InitValidate ==
  /\ basicInfo = NoBasicInfo
  /\ CoerceIdle
  /\ TextIdle
  /\ BatchIdle
  /\ ControllerIdle
  /\ ParseIdle
  /\ InsightsIdle
  /\ pdfBuffer \in Buffers
  /\ pcValidate = "idle"
  /\ validation = NoValidation

\* validatePDF(buffer) up to its return or to the await of pdf()
CallValidatePDF ==
  /\ pcValidate = "idle"
  /\ LET before == ValidateBeforeParse(pdfBuffer) IN
     /\ validation' = before.value
     /\ pcValidate' = IF before.done THEN "returned" ELSE "parsing"
  /\ UNCHANGED <<coerceVars, textVars, batchVars, controllerVars, parseVars, insightVars, pdfBuffer>>

\* pdf(buffer, {max: 1}) resolves: return {isValid: true}
ValidateParseResolves ==
  /\ pcValidate = "parsing"
  /\ validation' = Validation(TRUE, Undef, "resolved")
  /\ pcValidate' = "returned"
  /\ UNCHANGED <<coerceVars, textVars, batchVars, controllerVars, parseVars, insightVars, pdfBuffer>>

\* pdf(buffer, {max: 1}) rejects: the catch block
ValidateParseRejects ==
  /\ pcValidate = "parsing"
  /\ \E m \in PdfErrors : validation' = ValidateCatch(m, "rejected")
  /\ pcValidate' = "returned"
  /\ UNCHANGED <<coerceVars, textVars, batchVars, controllerVars, parseVars, insightVars, pdfBuffer>>

NextValidate ==
  \/ CallValidatePDF
  \/ ValidateParseResolves
  \/ ValidateParseRejects

SpecValidate == InitValidate /\ [][NextValidate]_vars

\* ------------------------------------------------------------------------
\* generateInsights for one company
\* ------------------------------------------------------------------------

\* rows get_company_analytics returns at most
MaxRows == 3

Timeframes == { <<"3", "0", "d">>, <<"7", "d">>, <<"9", "0", "d">> }

AnalyticsRows == { Null, Undef } \cup { ListOf(n) : n \in 0..MaxRows }

InsightContents ==
  { <<"{", "}">>,
    <<"{", "\"", "i", "n", "s", "i", "g", "h", "t", "s", "\"", ":", "[", "\"", "S", "c", "o", "r", "e", "s", " ", "i", "m", "p", "r", "o", "v", "e", "d", "\"", "]", ",", "\"", "t", "r", "e", "n", "d", "s", "\"", ":", "[", "]", ",", "\"", "r", "e", "c", "o", "m", "m", "e", "n", "d", "a", "t", "i", "o", "n", "s", "\"", ":", "[", "\"", "W", "i", "d", "e", "n", " ", "t", "h", "e", " ", "s", "e", "a", "r", "c", "h", "\"", "]", "}">>,
    <<"{", "\"", "i", "n", "s", "i", "g", "h", "t", "s", "\"", ":", "[", "\"", "S", "c", "o", "r", "e", "s", " ", "i", "m", "p", "r", "o", "v", "e", "d", "\"", "]", "}">>,
    <<"{", "\"", "t", "r", "e", "n", "d", "s", "\"", ":", "[", "]", ",", "\"", "r", "e", "c", "o", "m", "m", "e", "n", "d", "a", "t", "i", "o", "n", "s", "\"", ":", "[", "]", "}">>,
    <<"n", "u", "l", "l">>,
    <<"[", "]">>,
    <<"{", "\"", "i", "n", "s", "i", "g", "h", "t", "s", "\"", ":", "[", "\"", "S", "c", "o", "r", "e", "s">>,
    <<"{", "\"", "i", "n", "s", "i", "g", "h", "t", "s", "\"", ":", "[", "]", ",", "\"", "t", "r", "e", "n", "d", "s", "\"", ":", "[", "]", ",", "\"", "r", "e", "c", "o", "m", "m", "e", "n", "d", "a", "t", "i", "o", "n", "s", "\"", ":", "[", "]", "}">>,
    <<" ", "{", "}", " ">>,
    <<"N", "o", " ", "i", "n", "s", "i", "g", "h", "t", "s", " ", "t", "o", "d", "a", "y", ".">> }

InitInsights ==
  /\ basicInfo = NoBasicInfo
  /\ CoerceIdle
  /\ TextIdle
  /\ BatchIdle
  /\ ControllerIdle
  /\ ParseIdle
  /\ ValidateIdle
  /\ timeframe \in Timeframes
  /\ pcInsights = "idle"
  /\ analytics = NoSettled
  /\ insightsReply = NoSettled
  /\ insightsOut = NoSettled

\* generateInsights(companyId, timeframe) asks for the analytics rows
CallGenerateInsights ==
  /\ pcInsights = "idle"
  /\ pcInsights' = "fetching"
  /\ UNCHANGED <<coerceVars, textVars, batchVars, controllerVars, parseVars, validateVars,
                 timeframe, analytics, insightsReply, insightsOut>>

\* getCompanyAnalytics returns rows: the canned payload when there are
\* none, else the completion call
AnalyticsResolves ==
  /\ pcInsights = "fetching"
  /\ \E rows \in AnalyticsRows :
       /\ analytics' = [rejected |-> FALSE, message |-> <<>>, rows |-> rows]
       /\ IF NoAnalytics(rows)
          THEN insightsOut' = NoDataInsights /\ pcInsights' = "returned"
          ELSE insightsOut' = insightsOut /\ pcInsights' = "completing"
  /\ UNCHANGED <<coerceVars, textVars, batchVars, controllerVars, parseVars, validateVars,
                 timeframe, insightsReply>>

\* getCompanyAnalytics throws: the catch block
AnalyticsRejects ==
  /\ pcInsights = "fetching"
  /\ analytics' = [rejected |-> TRUE, message |-> <<"c", "o", "n", "n", "e", "c", "t", "i", "o", "n", " ", "r", "e", "f", "u", "s", "e", "d">>, rows |-> Undef]
  /\ insightsOut' = TryLaterInsights
  /\ pcInsights' = "returned"
  /\ UNCHANGED <<coerceVars, textVars, batchVars, controllerVars, parseVars, validateVars,
                 timeframe, insightsReply>>

\* the completion call returns a reply: parse it and return
InsightsCompletionResolves ==
  /\ pcInsights = "completing"
  /\ \E text \in InsightContents :
       /\ insightsReply' = [rejected |-> FALSE, message |-> <<>>, content |-> text]
       /\ insightsOut' = FinishGenerateInsights(insightsReply', timeframe)
  /\ pcInsights' = "returned"
  /\ UNCHANGED <<coerceVars, textVars, batchVars, controllerVars, parseVars, validateVars,
                 timeframe, analytics>>

\* the completion call fails: the catch block
InsightsCompletionRejects ==
  /\ pcInsights = "completing"
  /\ \E m \in ApiErrors :
       /\ insightsReply' = [rejected |-> TRUE, message |-> m, content |-> <<>>]
       /\ insightsOut' = FinishGenerateInsights(insightsReply', timeframe)
  /\ pcInsights' = "returned"
  /\ UNCHANGED <<coerceVars, textVars, batchVars, controllerVars, parseVars, validateVars,
                 timeframe, analytics>>

NextInsights ==
  \/ CallGenerateInsights
  \/ AnalyticsResolves
  \/ AnalyticsRejects
  \/ InsightsCompletionResolves
  \/ InsightsCompletionRejects

SpecInsights == InitInsights /\ [][NextInsights]_vars

\* ------------------------------------------------------------------------
\* extractBasicInfo on one text
\* ------------------------------------------------------------------------

\* lines of a resume's head: headers, names, contact data, blank lines, and
\* two lines of 50 and 49 characters
HeadLines ==
  { <<"R", "E", "S", "U", "M", "E">>,
    <<"J", "o", "h", "n", " ", "A", ".", " ", "S", "m", "i", "t", "h">>,
    <<"S", "o", "f", "t", "w", "a", "r", "e", " ", "E", "n", "g", "i", "n", "e", "e", "r">>,
    <<".", "N", "E", "T", " ", "D", "e", "v", "e", "l", "o", "p", "e", "r">>,
    <<"V", "i", "t", "a", "e", " ", "o", "f", " ", "A", "n", "n">>,
    <<"S", "c", "o", "t", "t", " ", "M", "c", "V", "e", "y">>,
    <<"A", "n", "n", " ", "O", "'", "N", "e", "i", "l", "-", "L", "e", "e">>,
    <<"J", " ", "S", "m", "i", "t", "h">>,
    <<"A", "n", "n", " ", "L", "e", "e", " ", "2", "0", "2", "4">>,
    <<"M", "a", "r", "y", " ", "A", "n", "n", " ", "L", "e", "e", " ", "V", "a", "n", " ", "D", "y", "k", "e">>,
    <<"a", "n", "n", "@", "x", ".", "i", "o">>,
    <<"T", "e", "l", " ", "+", "1", " ", "(", "5", "5", "5", ")", " ", "1", "2", "3", "-", "4", "5", "6", "7">>,
    <<"B", "o", "s", "t", "o", "n", ",", " ", "M", "A">>,
    <<" ", " ">>,
    <<>>,
    <<" ", " ", "A", "n", "n", " ", " ", "L", "e", "e", "\r">>,
    <<"A", "b", "c", "d", "e", "f", "g", "h", "i", "j", "k", "l", " ", "A", "b", "c", "d", "e", "f", "g", "h", "i", "j", "k", "l", " ", "A", "b", "c", "d", "e", "f", "g", "h", "i", "j", "k", "l", " ", "A", "b", "c", "d", "e", "f", "g", "h", "i", "j", "k">>,
    <<"A", "b", "c", "d", "e", "f", "g", "h", "i", "j", "k", "l", " ", "A", "b", "c", "d", "e", "f", "g", "h", "i", "j", "k", "l", " ", "A", "b", "c", "d", "e", "f", "g", "h", "i", "j", "k", "l", " ", "A", "b", "c", "d", "e", "f", "g", "h", "i", "j">> }

\* lines of a text
MaxLines == 2

\* lines put in front of the name
MaxPad == 6

RECURSIVE HeadTexts(_)
HeadTexts(n) ==
  IF n = 1 THEN HeadLines
  ELSE LET shorter == HeadTexts(n - 1) IN
       shorter \cup { t \o <<"\n">> \o l : t \in shorter, l \in HeadLines }

FillerLine == <<"O", "b", "j", "e", "c", "t", "i", "v", "e", "\n">>

RECURSIVE Padding(_)
Padding(k) == IF k = 0 THEN <<>> ELSE FillerLine \o Padding(k - 1)

PaddedTexts ==
  { Padding(k) \o b \o <<"J", "o", "h", "n", " ", "A", ".", " ", "S", "m", "i", "t", "h", "\n", "S", "o", "f", "t", "w", "a", "r", "e", " ", "E", "n", "g", "i", "n", "e", "e", "r">> :
      k \in 0..MaxPad, b \in {<<>>, <<"\n">>} }

\* what a caller may hand over where a string is expected
NonStrings == { Null, Undef, Num(5), Bool(TRUE), Arr(<<>>), Obj(0) }

\* texts handed over as objects with a match method only
Matchers == { Matcher(t) : t \in HeadLines }

ParseInputs ==
  { Str(t) : t \in HeadTexts(MaxLines) \cup PaddedTexts } \cup NonStrings \cup Matchers

InitBasicInfo ==
  /\ basicInfo = NoBasicInfo
  /\ CoerceIdle
  /\ TextIdle
  /\ BatchIdle
  /\ ControllerIdle
  /\ ValidateIdle
  /\ InsightsIdle
  /\ parseText \in ParseInputs
  /\ pcParse = "idle"
  /\ parsed = NoParsed

\* extractBasicInfo(text), from the call to its return
ExtractBasicInfo ==
  /\ pcParse = "idle"
  /\ parsed' = extractBasicInfo(parseText)
  /\ pcParse' = IF parsed'.threw THEN "threw" ELSE "returned"
  /\ UNCHANGED <<coerceVars, textVars, batchVars, controllerVars, validateVars, insightVars, parseText>>

NextBasicInfo == ExtractBasicInfo

SpecBasicInfo == InitBasicInfo /\ [][NextBasicInfo]_vars

\* ------------------------------------------------------------------------
\* extractExperience on one text
\* ------------------------------------------------------------------------

\* "N+ years of experience", "N years in ..." and phrases close to them
YearsPhrases ==
  { n \o plus \o unit \o tail :
      n \in { <<"5">>, <<"1", "2">> },
      plus \in { <<>>, <<"+">> },
      unit \in { <<" ", "y", "e", "a", "r", "s">>, <<"y", "e", "a", "r">> },
      tail \in { <<" ", "o", "f", " ", "e", "x", "p", "e", "r", "i", "e", "n", "c", "e">>, <<" ", "E", "x", "p", "e", "r", "i", "e", "n", "c", "e">>,
                <<" ", "i", "n", " ", "D", "e", "v", "O", "p", "s">>, <<" ", "o", "l", "d">> } }

\* "experience: N years" and phrases close to it
ExperiencePhrases ==
  { <<"e", "x", "p", "e", "r", "i", "e", "n", "c", "e">> \o sep \o n \o unit :
      sep \in { <<":", " ">>, <<" ">> },
      n \in { <<"3">>, <<"2", "0">> },
      unit \in { <<" ", "y", "e", "a", "r", "s">>, <<"+", " ", "y", "r", "s">> } }

Phrases == YearsPhrases \cup ExperiencePhrases

ExperienceTexts ==
  Phrases \cup { a \o <<",", " ">> \o b : a \in Phrases, b \in Phrases } \cup
  { <<>>,
    <<"5", "+", " ", "y", "e", "a", "r", "s", " ", "o", "f", " ", "e", "x", "p", "e", "r", "i", "e", "n", "c", "e", " ", "i", "n", " ", "b", "a", "c", "k", "e", "n", "d", " ", "s", "y", "s", "t", "e", "m", "s", ",", " ", "3", " ", "y", "e", "a", "r", "s", " ", "i", "n", " ", "D", "e", "v", "O", "p", "s">>,
    <<"S", "e", "a", "s", "o", "n", "e", "d", " ", "e", "n", "g", "i", "n", "e", "e", "r">>,
    <<"0", "0", "7", " ", "y", "e", "a", "r", "s", " ", "i", "n", " ", "s", "e", "r", "v", "i", "c", "e">> }

InitExperience ==
  /\ basicInfo = NoBasicInfo
  /\ CoerceIdle
  /\ TextIdle
  /\ BatchIdle
  /\ ControllerIdle
  /\ ValidateIdle
  /\ InsightsIdle
  /\ parseText \in { Str(t) : t \in ExperienceTexts } \cup NonStrings
  /\ pcParse = "idle"
  /\ parsed = NoParsed

\* extractExperience(text), from the call to its return
ExtractExperience ==
  /\ pcParse = "idle"
  /\ parsed' = extractExperience(parseText)
  /\ pcParse' = IF parsed'.threw THEN "threw" ELSE "returned"
  /\ UNCHANGED <<coerceVars, textVars, batchVars, controllerVars, validateVars, insightVars, parseText>>

NextExperience == ExtractExperience

SpecExperience == InitExperience /\ [][NextExperience]_vars

\* ------------------------------------------------------------------------
\* extractSkills on one text
\* ------------------------------------------------------------------------

\* what a resume's skills section names
Mentions ==
  { <<"C", "+", "+">>,
    <<"C", "#">>,
    <<"N", "o", "d", "e", ".", "j", "s">>,
    <<"C", "I", "/", "C", "D">>,
    <<"J", "a", "v", "a">>,
    <<"J", "a", "v", "a", "S", "c", "r", "i", "p", "t">>,
    <<"R">>,
    <<"G", "o">>,
    <<"g", "i", "t">>,
    <<"G", "i", "t", "H", "u", "b">>,
    <<"R", "e", "a", "c", "t">>,
    <<"p", "r", "o", "b", "l", "e", "m", " ", "s", "o", "l", "v", "i", "n", "g">>,
    <<"a", "n", "n", "@", "x", ".", "i", "o">>,
    <<"T", "C", "P", "/", "I", "P">>,
    <<"A", "S", "P", ".", "N", "E", "T">>,
    <<"c", "+", "+", "1", "1">>,
    <<"P", "y", "t", "h", "o", "n">> }

MentionSeparators == { <<" ">>, <<",", " ">>, <<"/">> }

SkillTexts ==
  Mentions \cup
  { a \o sep \o b : a \in Mentions, sep \in MentionSeparators, b \in Mentions } \cup
  { <<>>,
    <<"S", "k", "i", "l", "l", "s", ":", " ", "C", "+", "+", ",", " ", "C", "#", ",", " ", "N", "o", "d", "e", ".", "j", "s", " ", "a", "n", "d", " ", "C", "I", "/", "C", "D", ".">>,
    <<"a", "n", "n", "@", "x", ".", "i", "o", " ", "b", "o", "b", "@", "y", ".", "o", "r", "g", " ", "a", "n", "n", "@", "x", ".", "i", "o">> }

InitSkills ==
  /\ basicInfo = NoBasicInfo
  /\ CoerceIdle
  /\ TextIdle
  /\ BatchIdle
  /\ ControllerIdle
  /\ ValidateIdle
  /\ InsightsIdle
  /\ parseText \in { Str(t) : t \in SkillTexts } \cup NonStrings
  /\ pcParse = "idle"
  /\ parsed = NoParsed

\* extractSkills(text), from the call to its return
ExtractSkills ==
  /\ pcParse = "idle"
  /\ parsed' = extractSkills(parseText)
  /\ pcParse' = IF parsed'.threw THEN "threw" ELSE "returned"
  /\ UNCHANGED <<coerceVars, textVars, batchVars, controllerVars, validateVars, insightVars, parseText>>

NextSkills == ExtractSkills

SpecSkills == InitSkills /\ [][NextSkills]_vars

\* ------------------------------------------------------------------------
\* ResumeController: requests against the resumes table, the bucket and the
\* token balances
\* ------------------------------------------------------------------------

Companies == {"A", "B"}

\* the company whose users send the requests; B is the other tenant
UserCompanies == {"A"}

\* requests in the system
MaxRequests == 2

Reqs == 1..MaxRequests

\* resumeIds a batch request may carry
MaxBatchIds == 2

\* tokens_remaining of a company when the first request arrives
MaxTokens == 2

NoRow == [exists |-> FALSE, company_id |-> "", status |-> "", score |-> 0]

Row(company, status, score) ==
  [exists |-> TRUE, company_id |-> company, status |-> status, score |-> score]

\* the rows on record before the requests: id 1 and 2 of company A, id 3 of
\* company B
InitialStore ==
  <<Row("A", "failed", 0), Row("A", "processed", 80), Row("B", "failed", 0)>>

InitialIds == 1..Len(InitialStore)

\* every id a row or a path can have
Ids == 1..(Len(InitialStore) + MaxRequests)

\* the ids a client names: a row on record or the first fresh id
RequestIds == 1..(Len(InitialStore) + 1)

RECURSIVE IdLists(_)
IdLists(n) ==
  IF n = 0 THEN {<<>>}
  ELSE LET shorter == IdLists(n - 1) IN
       shorter \cup { Append(l, id) : l \in shorter, id \in RequestIds }

NoSummary == [total |-> 0, successful |-> 0, failed |-> 0]

\* a request as authMiddleware hands it to the route: req.user.company holds
\* the company row read then, tokens_remaining included
Request(kind, user, companyId, ids, rid, snap) ==
  [kind |-> kind, user |-> user, companyId |-> companyId, ids |-> ids,
   rid |-> rid, tokens_remaining |-> snap, pc |-> "handler", path |-> 0, k |-> 1,
   resumes |-> <<>>, results |-> <<>>, summary |-> NoSummary, code |-> 0,
   data |-> NoRow, stored |-> "", wrote |-> FALSE,
   after |-> { q \in Reqs : reqs[q].pc = "done" }]

NoRequest ==
  [kind |-> "none", user |-> "", companyId |-> "", ids |-> <<>>, rid |-> 0,
   tokens_remaining |-> 0, pc |-> "idle", path |-> 0, k |-> 1, resumes |-> <<>>,
   results |-> <<>>, summary |-> NoSummary, code |-> 0, data |-> NoRow,
   stored |-> "", wrote |-> FALSE, after |-> {}]

\* res.status(code).json(...)
Answered(r, code) == [reqs EXCEPT ![r].pc = "done", ![r].code = code]

\* a call made on behalf of the item at position k of request r
Logged(r, id, op) ==
  events \cup {[req |-> r, k |-> reqs[r].k, id |-> id, op |-> op]}

\* the decrement_token function of the database: one token less; what it
\* does with an empty balance is the database's affair
DecrementToken(balance) ==
  IF balance > 0 THEN {balance - 1} ELSE {balance, balance - 1}

\* requireTokens, in front of the upload and the batch route
RequireTokensPasses(r) == reqs[r].tokens_remaining > 0

InitController ==
  /\ basicInfo = NoBasicInfo
  /\ CoerceIdle
  /\ TextIdle
  /\ BatchIdle
  /\ ParseIdle
  /\ ValidateIdle
  /\ InsightsIdle
  /\ store = [id \in Ids |-> IF id \in InitialIds THEN InitialStore[id] ELSE NoRow]
  /\ files = InitialIds
  /\ \E n \in 0..MaxTokens : tokens = [c \in Companies |-> n]
  /\ reqs = [r \in Reqs |-> NoRequest]
  /\ nextId = Len(InitialStore) + 1
  /\ events = {}

otherVars == <<coerceVars, textVars, batchVars, parseVars, validateVars, insightVars>>

\* authMiddleware: the request of a user of some company reaches its route;
\* the requests are numbered as they arrive
Authenticate(r) ==
  /\ reqs[r].pc = "idle"
  /\ \A q \in Reqs : q < r => reqs[q].pc # "idle"
  /\ \E user \in UserCompanies :
       \/ \E companyId \in Companies :
            reqs' = [reqs EXCEPT ![r] =
                       Request("processResume", user, companyId, <<>>, 0, tokens[user])]
       \/ \E ids \in IdLists(MaxBatchIds) :
            reqs' = [reqs EXCEPT ![r] =
                       Request("batchProcess", user, user, ids, 0, tokens[user])]
       \/ \E id \in RequestIds, kind \in {"getResume", "deleteResume"} :
            reqs' = [reqs EXCEPT ![r] = Request(kind, user, user, <<>>, id, tokens[user])]
  /\ UNCHANGED <<otherVars, store, files, tokens, nextId, events>>

\* ---- processResume ----

At(r, kind, pc) == reqs[r].kind = kind /\ reqs[r].pc = pc

\* an error reaches the catch block of processResume: with no row created
\* it answers 500 at once, otherwise it first writes the status
ProcessResumeThrown(r) ==
  IF reqs[r].rid = 0 THEN Answered(r, 500) ELSE [reqs EXCEPT ![r].pc = "catch"]

\* requireTokens and lines 15-47: company, balance and validatePDF
ProcessResumeChecks(r) ==
  /\ At(r, "processResume", "handler")
  /\ \E valid \in BOOLEAN :
       reqs' = IF ~RequireTokensPasses(r) THEN Answered(r, 402)
               ELSE IF reqs[r].user # reqs[r].companyId THEN Answered(r, 403)
               ELSE IF reqs[r].tokens_remaining <= 0 THEN Answered(r, 402)
               ELSE IF ~valid THEN Answered(r, 400)
               ELSE [reqs EXCEPT ![r].pc = "upload"]
  /\ UNCHANGED <<otherVars, store, files, tokens, nextId, events>>

\* lines 49-60: the upload to the bucket
ProcessResumeUpload(r) ==
  /\ At(r, "processResume", "upload")
  /\ \E ok \in BOOLEAN :
       IF ok
       THEN /\ files' = files \cup {nextId}
            /\ nextId' = nextId + 1
            /\ reqs' = [reqs EXCEPT ![r].pc = "insert", ![r].path = nextId]
       ELSE /\ reqs' = ProcessResumeThrown(r)
            /\ UNCHANGED <<files, nextId>>
  /\ UNCHANGED <<otherVars, store, tokens, events>>

\* lines 62-79: the row is created with status 'processing'
ProcessResumeInsert(r) ==
  /\ At(r, "processResume", "insert")
  /\ \E ok \in BOOLEAN :
       IF ok
       THEN /\ store' = [store EXCEPT ![reqs[r].path] = Row(reqs[r].companyId, "processing", 0)]
            /\ reqs' = [reqs EXCEPT ![r].pc = "extract", ![r].rid = reqs[r].path]
       ELSE /\ reqs' = ProcessResumeThrown(r)
            /\ UNCHANGED store
  /\ UNCHANGED <<otherVars, files, tokens, nextId, events>>

\* lines 81-86: extractText, extractBasicInfo, getJobRequirements
ProcessResumeExtract(r) ==
  /\ At(r, "processResume", "extract")
  /\ \E ok \in BOOLEAN :
       reqs' = IF ok THEN [reqs EXCEPT ![r].pc = "score"] ELSE ProcessResumeThrown(r)
  /\ UNCHANGED <<otherVars, store, files, tokens, nextId, events>>

\* lines 88-93: aiScorer.scoreResume
ProcessResumeScore(r) ==
  /\ At(r, "processResume", "score")
  /\ events' = Logged(r, reqs[r].rid, "score")
  /\ \E ok \in BOOLEAN :
       reqs' = IF ok THEN [reqs EXCEPT ![r].pc = "update"] ELSE ProcessResumeThrown(r)
  /\ UNCHANGED <<otherVars, store, files, tokens, nextId>>

\* updateResumeScore: the row gets its score and status 'processed'; the
\* update of no row is an error of .single()
UpdateResumeScore(id, score) ==
  [store EXCEPT ![id] = [@ EXCEPT !.status = "processed", !.score = score]]

\* line 96
ProcessResumeUpdate(r) ==
  /\ At(r, "processResume", "update")
  /\ \E ok \in BOOLEAN :
       IF ok /\ store[reqs[r].rid].exists
       THEN /\ store' = UpdateResumeScore(reqs[r].rid, 70)
            /\ events' = Logged(r, reqs[r].rid, "update")
            /\ reqs' = [reqs EXCEPT ![r].pc = "decrement"]
       ELSE /\ reqs' = ProcessResumeThrown(r)
            /\ UNCHANGED <<store, events>>
  /\ UNCHANGED <<otherVars, files, tokens, nextId>>

\* line 99: decrementCompanyTokens
ProcessResumeDecrement(r) ==
  /\ At(r, "processResume", "decrement")
  /\ \E ok \in BOOLEAN :
       IF ok
       THEN /\ \E left \in DecrementToken(tokens[reqs[r].companyId]) :
                 tokens' = [tokens EXCEPT ![reqs[r].companyId] = left]
            /\ events' = Logged(r, reqs[r].rid, "decrement")
            /\ reqs' = [reqs EXCEPT ![r].pc = "logTokenUsage"]
       ELSE /\ reqs' = ProcessResumeThrown(r)
            /\ UNCHANGED <<tokens, events>>
  /\ UNCHANGED <<otherVars, store, files, nextId>>

\* line 100: logTokenUsage
ProcessResumeLogUsage(r) ==
  /\ At(r, "processResume", "logTokenUsage")
  /\ \E ok \in BOOLEAN :
       reqs' = IF ok THEN [reqs EXCEPT ![r].pc = "logAnalyticsEvent"]
               ELSE ProcessResumeThrown(r)
  /\ UNCHANGED <<otherVars, store, files, tokens, nextId, events>>

\* lines 102-130: logAnalyticsEvent and the 200 answer
ProcessResumeRespond(r) ==
  /\ At(r, "processResume", "logAnalyticsEvent")
  /\ \E ok \in BOOLEAN :
       reqs' = IF ok
               THEN [Answered(r, 200) EXCEPT ![r].stored = store[reqs[r].rid].status]
               ELSE ProcessResumeThrown(r)
  /\ UNCHANGED <<otherVars, store, files, tokens, nextId, events>>

\* mutant of UpdateResumeStatus: the status is not written
UpdateResumeStatus_Keep(id, status) == store

\* updateResumeStatus(resumeId, 'failed', message)
UpdateResumeStatus(id, status) == [store EXCEPT ![id].status = status]

\* lines 132-150: the catch block writes 'failed' when a row was created,
\* swallows a failure of that write and answers 500
ProcessResumeCatch(r) ==
  /\ At(r, "processResume", "catch")
  /\ \E ok \in BOOLEAN :
       LET written == ok /\ store[reqs[r].rid].exists IN
       /\ store' = IF written THEN UpdateResumeStatus(reqs[r].rid, "failed") ELSE store
       /\ reqs' = [Answered(r, 500) EXCEPT ![r].stored = store'[reqs[r].rid].status,
                                          ![r].wrote = written]
  /\ UNCHANGED <<otherVars, files, tokens, nextId, events>>

ProcessResume(r) ==
  \/ ProcessResumeChecks(r)
  \/ ProcessResumeUpload(r)
  \/ ProcessResumeInsert(r)
  \/ ProcessResumeExtract(r)
  \/ ProcessResumeScore(r)
  \/ ProcessResumeUpdate(r)
  \/ ProcessResumeDecrement(r)
  \/ ProcessResumeLogUsage(r)
  \/ ProcessResumeRespond(r)
  \/ ProcessResumeCatch(r)

\* mutant of DifferentCompany: the company of the row is not looked at
DifferentCompany_Never(resume, r) == FALSE

\* resume.company_id !== companyId, with companyId = req.user.company.id
DifferentCompany(resume, r) == resume.company_id # reqs[r].user

\* ---- getResume ----

\* getResumeById settles with the row, with null, or with an error
Lookups == {"found", "error"}

\* what a request notes of a lookup that ended in an error
LookupFailed == [NoRow EXCEPT !.status = "error"]

\* lines 154-187
GetResume(r) ==
  /\ At(r, "getResume", "handler")
  /\ \E got \in Lookups :
       LET resume == store[reqs[r].rid] IN
       reqs' = IF got = "error" THEN Answered(r, 500)
               ELSE IF ~resume.exists THEN Answered(r, 404)
               ELSE IF DifferentCompany(resume, r) THEN Answered(r, 403)
               ELSE [Answered(r, 200) EXCEPT ![r].data = resume]
  /\ UNCHANGED <<otherVars, store, files, tokens, nextId, events>>

\* ---- deleteResume ----

\* lines 348-367
DeleteResumeLookup(r) ==
  /\ At(r, "deleteResume", "handler")
  /\ \E got \in Lookups :
       LET resume == store[reqs[r].rid] IN
       reqs' = IF got = "error" THEN Answered(r, 500)
               ELSE IF ~resume.exists THEN Answered(r, 404)
               ELSE IF DifferentCompany(resume, r) THEN Answered(r, 403)
               ELSE [reqs EXCEPT ![r].pc = "removeFile", ![r].path = reqs[r].rid]
  /\ UNCHANGED <<otherVars, store, files, tokens, nextId, events>>

\* lines 369-376: a storage error is logged and the handler goes on
DeleteResumeRemoveFile(r) ==
  /\ At(r, "deleteResume", "removeFile")
  /\ \E ok \in BOOLEAN :
       files' = IF ok THEN files \ {reqs[r].path} ELSE files
  /\ reqs' = [reqs EXCEPT ![r].pc = "deleteRow"]
  /\ UNCHANGED <<otherVars, store, tokens, nextId, events>>

\* lines 378-386
DeleteResumeRow(r) ==
  /\ At(r, "deleteResume", "deleteRow")
  /\ \E ok \in BOOLEAN :
       IF ok
       THEN /\ store' = [store EXCEPT ![reqs[r].rid] = NoRow]
            /\ reqs' = [reqs EXCEPT ![r].pc = "logAnalyticsEvent"]
       ELSE /\ reqs' = Answered(r, 500)
            /\ UNCHANGED store
  /\ UNCHANGED <<otherVars, files, tokens, nextId, events>>

\* lines 388-405
DeleteResumeRespond(r) ==
  /\ At(r, "deleteResume", "logAnalyticsEvent")
  /\ \E ok \in BOOLEAN : reqs' = Answered(r, IF ok THEN 200 ELSE 500)
  /\ UNCHANGED <<otherVars, store, files, tokens, nextId, events>>

DeleteResume(r) ==
  \/ DeleteResumeLookup(r)
  \/ DeleteResumeRemoveFile(r)
  \/ DeleteResumeRow(r)
  \/ DeleteResumeRespond(r)

\* ---- batchProcess ----

\* resumeIds.length > 10
BatchLimit == 10

Failure(resumeId, error) ==
  [resumeId |-> resumeId, success |-> FALSE, note |-> error, score |-> 0]

Success(resumeId, message, score) ==
  [resumeId |-> resumeId, success |-> TRUE, note |-> message, score |-> score]

\* results.push(entry) and the next turn of the loop
Pushed(rs, r, entry) ==
  [rs EXCEPT ![r].results = Append(@, entry), ![r].k = @ + 1, ![r].pc = "lookup"]

\* mutant of BatchProcessCaught: the failed resume gets no entry
BatchProcessCaught_Drop(rs, r) == [rs EXCEPT ![r].k = @ + 1, ![r].pc = "lookup"]

\* the catch block of the loop (lines 313-320)
BatchProcessCaught(rs, r) ==
  Pushed(rs, r, Failure(rs[r].ids[rs[r].k], "error.message"))

\* mutant of AlreadyProcessed: the status of the row is not looked at
AlreadyProcessed_Never(resume) == FALSE

\* resume.status === 'processed' (line 275)
AlreadyProcessed(resume) == resume.status = "processed"

\* requireTokens and lines 234-257
BatchProcessChecks(r) ==
  /\ At(r, "batchProcess", "handler")
  /\ reqs' = IF ~RequireTokensPasses(r) THEN Answered(r, 402)
             ELSE IF Len(reqs[r].ids) = 0 THEN Answered(r, 400)
             ELSE IF Len(reqs[r].ids) > BatchLimit THEN Answered(r, 400)
             ELSE IF reqs[r].tokens_remaining < Len(reqs[r].ids) THEN Answered(r, 402)
             ELSE [reqs EXCEPT ![r].pc = "getJobRequirements"]
  /\ UNCHANGED <<otherVars, store, files, tokens, nextId, events>>

\* line 260, outside the loop: its error ends the request with 500
BatchProcessRequirements(r) ==
  /\ At(r, "batchProcess", "getJobRequirements")
  /\ \E ok \in BOOLEAN :
       reqs' = IF ok THEN [reqs EXCEPT ![r].pc = "lookup"] ELSE Answered(r, 500)
  /\ UNCHANGED <<otherVars, store, files, tokens, nextId, events>>

\* lines 262-283: the row of the next id
BatchProcessLookup(r) ==
  /\ At(r, "batchProcess", "lookup")
  /\ reqs[r].k <= Len(reqs[r].ids)
  /\ \E got \in Lookups :
       LET resumeId == reqs[r].ids[reqs[r].k]
           resume == store[resumeId]
           read == [reqs EXCEPT ![r].resumes =
                      Append(@, IF got = "error" THEN LookupFailed ELSE resume)]
       IN reqs' = IF got = "error" THEN BatchProcessCaught(read, r)
                  ELSE IF ~resume.exists \/ DifferentCompany(resume, r)
                  THEN Pushed(read, r, Failure(resumeId, "Resume not found or access denied"))
                  ELSE IF AlreadyProcessed(resume)
                  THEN Pushed(read, r, Success(resumeId, "Already processed", resume.score))
                  ELSE [read EXCEPT ![r].pc = "download", ![r].path = resumeId]
  /\ UNCHANGED <<otherVars, store, files, tokens, nextId, events>>

\* lines 285-292: download, extractText, extractBasicInfo
BatchProcessDownload(r) ==
  /\ At(r, "batchProcess", "download")
  /\ events' = Logged(r, reqs[r].ids[reqs[r].k], "download")
  /\ \E ok \in BOOLEAN :
       reqs' = IF ok /\ reqs[r].path \in files THEN [reqs EXCEPT ![r].pc = "score"]
               ELSE BatchProcessCaught(reqs, r)
  /\ UNCHANGED <<otherVars, store, files, tokens, nextId>>

\* lines 294-298
BatchProcessScore(r) ==
  /\ At(r, "batchProcess", "score")
  /\ events' = Logged(r, reqs[r].ids[reqs[r].k], "score")
  /\ \E ok \in BOOLEAN :
       reqs' = IF ok THEN [reqs EXCEPT ![r].pc = "update"] ELSE BatchProcessCaught(reqs, r)
  /\ UNCHANGED <<otherVars, store, files, tokens, nextId>>

\* line 300
BatchProcessUpdate(r) ==
  /\ At(r, "batchProcess", "update")
  /\ \E ok \in BOOLEAN :
       LET resumeId == reqs[r].ids[reqs[r].k] IN
       IF ok /\ store[resumeId].exists
       THEN /\ store' = UpdateResumeScore(resumeId, 70)
            /\ events' = Logged(r, resumeId, "update")
            /\ reqs' = [reqs EXCEPT ![r].pc = "decrement"]
       ELSE /\ reqs' = BatchProcessCaught(reqs, r)
            /\ UNCHANGED <<store, events>>
  /\ UNCHANGED <<otherVars, files, tokens, nextId>>

\* lines 301-311: the decrement, the entry of the success and the pause
BatchProcessDecrement(r) ==
  /\ At(r, "batchProcess", "decrement")
  /\ \E ok \in BOOLEAN :
       LET resumeId == reqs[r].ids[reqs[r].k] IN
       IF ok
       THEN /\ \E left \in DecrementToken(tokens[reqs[r].user]) :
                 tokens' = [tokens EXCEPT ![reqs[r].user] = left]
            /\ events' = Logged(r, resumeId, "decrement")
            /\ reqs' = Pushed(reqs, r, Success(resumeId, "", 70))
       ELSE /\ reqs' = BatchProcessCaught(reqs, r)
            /\ UNCHANGED <<tokens, events>>
  /\ UNCHANGED <<otherVars, store, files, nextId>>

RECURSIVE SuccessCount(_)
SuccessCount(entries) ==
  IF Len(entries) = 0 THEN 0
  ELSE (IF Head(entries).success THEN 1 ELSE 0) + SuccessCount(Tail(entries))

\* lines 323-336: the 200 answer with the results and their summary
BatchProcessRespond(r) ==
  /\ At(r, "batchProcess", "lookup")
  /\ reqs[r].k > Len(reqs[r].ids)
  /\ LET successCount == SuccessCount(reqs[r].results) IN
     reqs' = [Answered(r, 200) EXCEPT ![r].summary =
                [total |-> Len(reqs[r].ids), successful |-> successCount,
                 failed |-> Len(reqs[r].ids) - successCount]]
  /\ UNCHANGED <<otherVars, store, files, tokens, nextId, events>>

BatchProcess(r) ==
  \/ BatchProcessChecks(r)
  \/ BatchProcessRequirements(r)
  \/ BatchProcessLookup(r)
  \/ BatchProcessDownload(r)
  \/ BatchProcessScore(r)
  \/ BatchProcessUpdate(r)
  \/ BatchProcessDecrement(r)
  \/ BatchProcessRespond(r)

NextController ==
  \E r \in Reqs :
    \/ Authenticate(r)
    \/ ProcessResume(r)
    \/ GetResume(r)
    \/ DeleteResume(r)
    \/ BatchProcess(r)

SpecController == InitController /\ [][NextController]_vars

\* ------------------------------------------------------------------------
\* Claims about processAIResponse (checked under SpecCoerce)
\* ------------------------------------------------------------------------

Returned == pcCoerce = "returned"

\* v is a number in [0,100]
InScoreRange(v) ==
  /\ v.t = "num"
  /\ NumLe(Num(ScoreMin), v)
  /\ NumLe(v, Num(ScoreMax))

\* v is a number >= 0
NonNegative(v) == v.t = "num" /\ NumLe(Num(0), v)

\* C1: whatever the reply carries in its score fields, the result has
\* overallScore, the four breakdown scores and fitScore each a number in
\* [0,100], and experienceYears a number >= 0.
C1_ScoresInRange ==
  Returned =>
    /\ InScoreRange(coerced.value.overallScore)
    /\ InScoreRange(coerced.value.breakdown.skills)
    /\ InScoreRange(coerced.value.breakdown.experience)
    /\ InScoreRange(coerced.value.breakdown.education)
    /\ InScoreRange(coerced.value.breakdown.relevance)
    /\ InScoreRange(coerced.value.fitScore)
    /\ NonNegative(coerced.value.experienceYears)

\* C2: keywordsMatched is the length of the result's own keywordMatches
\* list, whatever the length or type of the reply's keywordMatches field.
C2_KeywordsMatchedIsLength ==
  Returned =>
    coerced.value.keywordsMatched = Num(Len(coerced.value.keywordMatches.a))

\* C3: a raw reply that is not a JSON object (null, number, string, boolean,
\* array) yields exactly the fallback result.
C3_NonObjectGivesFallback ==
  (Returned /\ aiResponse.kind.t # "obj") =>
    coerced.value = Fallback(basicInfo)

\* C5: processAIResponse never throws, every field of the result is
\* present, and summary is a non-empty string.
C5_NeverThrowsFullyPopulated ==
  /\ pcCoerce # "threw"
  /\ Returned =>
       /\ \A fld \in {"overallScore", "strengths", "weaknesses",
                      "keywordMatches", "experienceYears", "summary",
                      "recommendations", "redFlags", "fitScore",
                      "candidateName", "keywordsMatched"} :
            coerced.value[fld].t # "undef"
       /\ \A fld \in {"skills", "experience", "education", "relevance"} :
            coerced.value.breakdown[fld].t # "undef"
       /\ coerced.value.summary.t = "str"
       /\ Len(coerced.value.summary.s) > 0

\* C6: the result's candidateName is basicInfo.candidateName on the normal
\* and on the fallback path, and two calls with the same basicInfo and
\* different replies return the same candidateName.
C6_CandidateNameFromBasicInfo ==
  Returned =>
    /\ coerced.value.candidateName = basicInfo.candidateName
    /\ prevCall.path # "none" =>
         coerced.value.candidateName = prevCall.candidateName

\* C6 witness: a fallback call followed by a normal call whose reply carries
\* a candidateName of its own, for a BasicInfo that has a name
C6_Witness ==
  /\ Returned
  /\ nCalls = 2
  /\ prevCall.path = "fallback"
  /\ coerced.path = "normal"
  /\ aiResponse.candidateName.t = "str"
  /\ basicInfo.candidateName.t = "str"
  /\ aiResponse.candidateName # basicInfo.candidateName

\* the try block built the result from the reply's fields
CoercedFromReply == Returned /\ coerced.path = "normal"

\* C19: the result's fitScore is the reply's own fitScore clamped to [0,100]
\* whenever the reply has a numeric fitScore (0 included), and the clamped
\* overallScore when the reply has no fitScore.
C19_FitScoreOwnWhenPresent ==
  CoercedFromReply =>
    LET fit == Prop(aiResponse, "fitScore") IN
    /\ fit.t = "num" =>
         coerced.value.fitScore = MathMin(ScoreMax, MathMax(ScoreMin, fit))
    /\ fit.t = "undef" =>
         coerced.value.fitScore = ClampScore(Prop(aiResponse, "overallScore"))

ListCaps ==
  { <<"strengths", StrengthsCap>>, <<"weaknesses", WeaknessesCap>>,
    <<"keywordMatches", KeywordMatchesCap>>,
    <<"recommendations", RecommendationsCap>>, <<"redFlags", RedFlagsCap>> }

\* C20: every list field of the result is a list no longer than its cap
\* (10, 10, 20, 5, 5); when the result is built from the reply's fields, it
\* holds the leading entries of the reply's field, in their order, up to the
\* cap when that field is a list, and is empty otherwise.
C20_ListsTruncatedToCap ==
  Returned =>
    \A fc \in ListCaps :
      LET out == coerced.value[fc[1]]
          src == Prop(aiResponse, fc[1])
      IN
      /\ out.t = "arr"
      /\ Len(out.a) <= fc[2]
      /\ coerced.path = "normal" =>
           IF src.t = "arr"
           THEN /\ Len(out.a) = (IF Len(src.a) < fc[2] THEN Len(src.a) ELSE fc[2])
                /\ \A i \in 1..Len(out.a) : out.a[i] = src.a[i]
           ELSE out.a = <<>>

\* a reply whose strengths list has one entry more than the cap was cut to
\* the cap
C20_Witness ==
  /\ CoercedFromReply
  /\ aiResponse.strengths.t = "arr"
  /\ Len(aiResponse.strengths.a) = StrengthsCap + 1
  /\ Len(coerced.value.strengths.a) = StrengthsCap

\* ------------------------------------------------------------------------
\* Claims about sanitizeText and extractText (checked under SpecText)
\* ------------------------------------------------------------------------

\* C7: sanitizeText is idempotent: sanitizeText(sanitizeText(x)) equals
\* sanitizeText(x) for every input string x.
C7_SanitizeIdempotent ==
  pcText = "twice" => cleanedTwice = cleanedOnce

\* (checked under SpecExtract)
\* C8: whenever extractText returns, the normalized text it returns is
\* non-empty.
C8_CleanTextNonEmpty ==
  pcExtract = "returned" => Len(extracted.text) > 0

\* the failure pdf() reported says that the document is not a parseable PDF
ReportedInvalid ==
  pdfData.threw /\ Includes(pdfData.message, <<"I", "n", "v", "a", "l", "i", "d", " ", "P", "D", "F">>)

\* the failure pdf() reported says that the document is encrypted
ReportedEncrypted ==
  /\ pdfData.threw
  /\ Includes(pdfData.message, <<"e", "n", "c", "r", "y", "p", "t", "e", "d">>)
  /\ ~ReportedInvalid

\* pdf() delivered no text or blanks only
BlankText == ~pdfData.threw /\ \A k \in 1..Len(pdfData.text) : IsSpace(pdfData.text[k])

Scored == pcBatch = "scored"

\* C4: scoreResume throws only when the completion call itself fails;
\* whenever the call returns a reply, whatever its content, scoreResume
\* returns a ScoringResult.
C4_ThrowsOnlyOnCallFailure ==
  Scored => (scoreOutcome.threw <=> completion.rejected)

\* C9: the batch returns one entry per document, in input order and with
\* the document's id; a document whose scoreResume call failed has
\* success=false and an error message, every other one success=true, and
\* scoreResume was called for every document whatever failed before it.
C9_OneOutcomePerDocument ==
  /\ Len(results) <= Len(scoreLog)
  /\ \A k \in 1..Len(results) :
       /\ results[k].resumeId = resumes[k].id
       /\ scoreLog[k].resumeId = resumes[k].id
       /\ results[k].success <=> ~scoreLog[k].threw
       /\ ~results[k].success =>
            /\ results[k].error.t = "str"
            /\ Len(results[k].error.s) > 0
  /\ pcBatch = "done" =>
       /\ Len(results) = Len(resumes)
       /\ Len(scoreLog) = Len(resumes)

\* C9 witness: a batch of three whose second document failed and whose
\* first and third were scored
C9_Witness ==
  /\ pcBatch = "done"
  /\ Len(resumes) = 3
  /\ Len(results) = 3
  /\ results[1].success
  /\ ~results[2].success
  /\ results[3].success

\* C10: between two successive completion calls of a batch lies a pause of
\* SleepMs, whether the earlier call succeeded or failed.
C10_PauseBetweenCalls ==
  \A k \in 1..(Len(callLog) - 1) :
    callLog[k + 1].start - callLog[k].end >= SleepMs

\* C11: within one batchScoreResumes invocation at most one completion call
\* is in flight, and the call for a document starts only after the call for
\* the document before it has settled (returned or failed).
C11_OneCallInFlight ==
  /\ inFlight <= 1
  /\ \A k \in 1..(Len(callLog) - 1) :
       /\ callLog[k].settled
       /\ callLog[k + 1].start >= callLog[k].end

\* the call for the second document is in flight, after the first one
\* settled
C11_Witness ==
  /\ Len(resumes) >= 2
  /\ Len(callLog) = 2
  /\ inFlight = 1
  /\ callLog[1].settled
  /\ ~callLog[2].settled

\* ------------------------------------------------------------------------
\* Claims about validatePDF (checked under SpecValidate)
\* ------------------------------------------------------------------------

\* C16: validatePDF fails closed and never throws: it returns isValid = true
\* exactly when the buffer starts with %PDF, has at least 1024 bytes and the
\* one-page parse resolved; in every other case it returns isValid = false
\* with a non-empty error text.
C16_ValidateFailsClosed ==
  /\ pcValidate # "threw"
  /\ pcValidate = "returned" =>
       /\ validation.isValid <=>
            /\ pdfBuffer.kind = "buffer"
            /\ pdfBuffer.length >= 1024
            /\ Len(pdfBuffer.head) = 4
            /\ pdfBuffer.head = <<37, 80, 68, 70>>
            /\ validation.parse = "resolved"
       /\ ~validation.isValid =>
            /\ validation.error.t = "str"
            /\ Len(validation.error.s) > 0

\* a buffer with the signature and the size whose parse failed was refused
C16_Witness ==
  /\ pcValidate = "returned"
  /\ pdfBuffer.head = <<37, 80, 68, 70>>
  /\ pdfBuffer.length >= 1024
  /\ validation.parse = "rejected"
  /\ ~validation.isValid

\* ------------------------------------------------------------------------
\* Claims about generateInsights (checked under SpecInsights)
\* ------------------------------------------------------------------------

\* C18: generateInsights never throws and its result always has insights,
\* trends and recommendations: the 'no recent data' payload when there are
\* no analytics rows, the 'try again later' payload when the analytics
\* fetch or the completion call fails, and all three fields too when the
\* reply parsed to a JSON object, whatever that object holds.
C18_InsightsAlwaysComplete ==
  /\ pcInsights # "threw"
  /\ pcInsights = "returned" =>
       /\ analytics.rejected \/ insightsReply.rejected =>
            insightsOut = TryLaterInsights
       /\ (~analytics.rejected /\ NoAnalytics(analytics.rows)) =>
            insightsOut = NoDataInsights
       /\ (~insightsReply.rejected /\ pcInsights = "returned"
             /\ ~analytics.rejected /\ ~NoAnalytics(analytics.rows)
             /\ JSONParseInsights(insightsReply.content).kind.t = "obj") =>
            /\ insightsOut.insights.t # "undef"
            /\ insightsOut.trends.t # "undef"
            /\ insightsOut.recommendations.t # "undef"

\* ------------------------------------------------------------------------
\* Claims about extractBasicInfo (checked under SpecBasicInfo)
\* ------------------------------------------------------------------------

AllFieldsNull ==
  /\ parsed.candidateName = Null
  /\ parsed.email = Null
  /\ parsed.phone = Null
  /\ parsed.location = Null

\* C12: extractBasicInfo never throws; for the empty string, and for an
\* input that makes a derivation fail (anything that is not a string), it
\* returns candidateName, email, phone and location all null.
C12_BasicInfoNeverThrows ==
  /\ pcParse # "threw"
  /\ pcParse = "returned" =>
       /\ ~parsed.threw
       /\ parseText = Str(<<>>) => AllFieldsNull
       /\ parseText.t # "str" => AllFieldsNull

\* the call with null in place of the text returned
C12_Witness ==
  /\ pcParse = "returned"
  /\ parseText = Null
  /\ AllFieldsNull

\* the words of a trimmed line start where a character that is not blank
\* follows a blank or opens the line
WordStarts(t) ==
  { p \in 1..Len(t) : t[p] \notin SpaceChars /\ (p = 1 \/ t[p - 1] \in SpaceChars) }

\* the line qualifies as the claim puts it: trimmed length in [4, 50), no
\* '@', no run of three digits, none of resume, cv, curriculum, and 2 to 4
\* words made of letters, apostrophes, hyphens and periods, each longer
\* than one character
QualifiesAsClaimed(line) ==
  LET t == Trim(line)
      low == ToLowerCase(t)
  IN /\ Len(t) >= 4 /\ Len(t) < 50
     /\ \A p \in 1..Len(t) : t[p] # "@"
     /\ ~\E p \in 1..(Len(t) - 2) : \A d \in 0..2 : IsDigit(t[p + d])
     /\ ~Includes(low, <<"r", "e", "s", "u", "m", "e">>)
     /\ ~Includes(low, <<"c", "v">>)
     /\ ~Includes(low, <<"c", "u", "r", "r", "i", "c", "u", "l", "u", "m">>)
     /\ Cardinality(WordStarts(t)) \in 2..4
     /\ \A p \in 1..Len(t) :
          t[p] \notin SpaceChars => t[p] \in Letters \cup {"'", "-", "."}
     /\ \A p \in WordStarts(t) : p < Len(t) /\ t[p + 1] \notin SpaceChars

\* the same with what the code asks on top: no vitae either, and every
\* word begins with a letter
QualifiesAsAmended(line) ==
  LET t == Trim(line) IN
  /\ QualifiesAsClaimed(line)
  /\ ~Includes(ToLowerCase(t), <<"v", "i", "t", "a", "e">>)
  /\ \A p \in WordStarts(t) : t[p] \in Letters

\* the first of the first five non-blank lines of the text that passes
\* the test, trimmed, and null when none does
FirstOfFive(Qualifies(_)) ==
  LET lines == NonBlankLines(parseText.s)
      firstFive == 1..(IF Len(lines) < 5 THEN Len(lines) ELSE 5)
      passing == { k \in firstFive : Qualifies(lines[k]) }
  IN IF passing = {} THEN Null
     ELSE Str(Trim(lines[CHOOSE k \in passing : \A j \in passing : k <= j]))

\* C14 as stated: candidateName is the first of the first five non-blank
\* lines that has trimmed length in [4, 50), no '@', no run of 3 or more
\* digits, no resume/cv/curriculum, and 2 to 4 words made of letters,
\* apostrophes, hyphens and periods and longer than one character; null
\* when there is none.
C14_NameIsFirstQualifyingLine ==
  (pcParse = "returned" /\ parseText.t = "str") =>
    parsed.candidateName = FirstOfFive(QualifiesAsClaimed)

\* C14 amended: the same, where a qualifying line has no vitae either and
\* each of its words begins with a letter.
C14_NameIsFirstQualifyingLine_Amended ==
  (pcParse = "returned" /\ parseText.t = "str") =>
    parsed.candidateName = FirstOfFive(QualifiesAsAmended)

\* the header line is passed over and the name on the line after it is
\* taken
C14_Witness ==
  /\ pcParse = "returned"
  /\ parseText = Str(<<"R", "E", "S", "U", "M", "E", "\n", "J", "o", "h", "n", " ", "A", ".", " ", "S", "m", "i", "t", "h">>)
  /\ parsed.candidateName = Str(<<"J", "o", "h", "n", " ", "A", ".", " ", "S", "m", "i", "t", "h">>)

\* ------------------------------------------------------------------------
\* Claims about extractExperience (checked under SpecExperience)
\* ------------------------------------------------------------------------

\* the integer written at the first digit at or after p
NumberAt(s, p) ==
  LET d == FirstIn(s, DigitChars, p) IN
  DigitsValue(SubSeq(s, d, RunEnd(s, d, DigitChars) - 1), 0)

\* the integers N of all the places of the text where one of the three
\* patterns matches
MatchedYears(s) ==
  { NumberAt(s, p) :
      p \in { q \in 1..Len(s) :
                \E k \in 1..Len(experiencePatterns) :
                  MatchAlt(s, q, experiencePatterns[k], 1) > 0 } }

\* C13: totalYears is the largest integer N over all matches of the three
\* patterns "N+ years [of] experience", "experience: N years" and
\* "N years in" in the text, and 0 when none matches.
C13_TotalYearsIsMaximum ==
  (pcParse = "returned" /\ parseText.t = "str") =>
    LET years == MatchedYears(parseText.s) IN
    /\ parsed.totalYears.t = "num"
    /\ years = {} => parsed.totalYears = Num(0)
    /\ years # {} =>
         /\ parsed.totalYears.i \in years
         /\ \A n \in years : n <= parsed.totalYears.i

\* the text of the claim's example gives 5
C13_Witness ==
  /\ pcParse = "returned"
  /\ parseText = Str(<<"5", "+", " ", "y", "e", "a", "r", "s", " ", "o", "f", " ", "e", "x", "p", "e", "r", "i", "e", "n", "c", "e", " ", "i", "n", " ", "b", "a", "c", "k", "e", "n", "d", " ", "s", "y", "s", "t", "e", "m", "s", ",", " ", "3", " ", "y", "e", "a", "r", "s", " ", "i", "n", " ", "D", "e", "v", "O", "p", "s">>)
  /\ parsed.totalYears = Num(5)

\* ------------------------------------------------------------------------
\* Claims about extractSkills (checked under SpecSkills)
\* ------------------------------------------------------------------------

\* term stands in s as a whole word, in any letter case: neither the
\* character before it nor the character after it is a letter, a digit or
\* an underscore
OccursAsWholeWord(s, term) ==
  LET low == ToLowerCase(s) IN
  \E p \in 1..Len(low) :
    /\ OccursAt(low, p, term)
    /\ p = 1 \/ low[p - 1] \notin WordChars
    /\ p + Len(term) > Len(low) \/ low[p + Len(term)] \notin WordChars

\* C15: extractSkills returns the vocabulary terms that occur in the text
\* as whole words, in any letter case, for every term of the vocabulary
\* (c++, c#, node.js and ci/cd among them), in the order of the vocabulary,
\* followed by the emails found, each entry once.
C15_SkillsAreWholeWordTerms ==
  (pcParse = "returned" /\ parseText.t = "str") =>
    parsed.skills =
      SelectSeq(commonSkills, LAMBDA term : OccursAsWholeWord(parseText.s, term)) \o
      Dedupe(MatchAll(parseText.s, 1, EmailRegex), {})

OnlyDigits(l) == Len(l) > 0 /\ \A k \in 1..Len(l) : l[k] \in DigitChars

\* the line is "Page N of M" and nothing else
OnlyPageMarker(l) ==
  /\ OccursAt(l, 1, PageWord)
  /\ PageMarkerEnd(l, 1) = Len(l) + 1
  /\ l[Len(l)] \in DigitChars

\* C22: no line of the text sanitizeText returns consists solely of an
\* integer or of "Page N of M", also when the line only arises from another
\* rule of the same pass (footer truncation, trimming).
C22_NoPageNumberLines ==
  pcText # "start" =>
    LET lines == Split(cleanedOnce, "\n") IN
    \A k \in 1..Len(lines) : ~OnlyDigits(lines[k]) /\ ~OnlyPageMarker(lines[k])

\* ------------------------------------------------------------------------
\* Claims about ResumeController (checked under SpecController)
\* ------------------------------------------------------------------------

AnsweredWith(r, kind, code) ==
  reqs[r].kind = kind /\ reqs[r].pc = "done" /\ reqs[r].code = code

\* C23: the results of batchProcess hold exactly one entry per requested
\* resumeId, in request order, whatever path each resume took (not found or
\* foreign, already processed, processed now, failed), and the summary has
\* successful + failed = total = number of requested ids.
C23_BatchNeverDropsAResume ==
  \A r \in Reqs :
    reqs[r].kind = "batchProcess" =>
      /\ reqs[r].pc \in {"lookup", "done"} /\ reqs[r].code \in {0, 200} =>
           Len(reqs[r].results) = reqs[r].k - 1
      /\ \A k \in 1..Len(reqs[r].results) :
           /\ k <= Len(reqs[r].ids)
           /\ reqs[r].results[k].resumeId = reqs[r].ids[k]
      /\ AnsweredWith(r, "batchProcess", 200) =>
           /\ Len(reqs[r].results) = Len(reqs[r].ids)
           /\ reqs[r].summary.total = Len(reqs[r].ids)
           /\ reqs[r].summary.successful = SuccessCount(reqs[r].results)
           /\ reqs[r].summary.successful + reqs[r].summary.failed = reqs[r].summary.total

\* a batch of a foreign resume and a failed one of the company was answered:
\* the first refused, the second failed in the loop
C23_Witness ==
  \E r \in Reqs :
    /\ AnsweredWith(r, "batchProcess", 200)
    /\ reqs[r].ids = <<3, 1>>
    /\ reqs[r].results[1] = Failure(3, "Resume not found or access denied")
    /\ reqs[r].results[2] = Failure(1, "error.message")
    /\ reqs[r].summary = [total |-> 2, successful |-> 0, failed |-> 2]

\* request r has made the call op for the resume id
Did(r, id, op) == \E e \in events : e.req = r /\ e.id = id /\ e.op = op

\* C24: processResume charges a company only for a resume that ends
\* processed: the token is decremented only after the scoring and the score
\* update have succeeded, and once a token was decremented for a resume the
\* stored status of that resume is 'processed' when the request has ended,
\* whichever later step (usage log, analytics log) fails.
C24_ChargedOnlyWhenProcessed ==
  \A r \in Reqs :
    (reqs[r].kind = "processResume" /\ Did(r, reqs[r].rid, "decrement")) =>
      /\ Did(r, reqs[r].rid, "score")
      /\ Did(r, reqs[r].rid, "update")
      /\ (reqs[r].pc = "done" /\ store[reqs[r].rid].exists) =>
           store[reqs[r].rid].status = "processed"

\* the calls op made so far, by any request
Calls(op) == { e \in events : e.op = op }

\* the balance of the company when its first request arrived
BalanceAtStart == reqs[1].tokens_remaining

\* C25: for a company whose balance is N, under any interleaving of its
\* processResume and batchProcess requests at most N resumes reach the
\* scoring call and at most N token decrements are made.
C25_AtMostBalanceCharged ==
  reqs[1].pc # "idle" =>
    /\ Cardinality(Calls("score")) <= BalanceAtStart
    /\ Cardinality(Calls("decrement")) <= BalanceAtStart

\* the rows of the other company, as they were before the requests
ForeignIds == { id \in InitialIds : InitialStore[id].company_id \notin UserCompanies }

\* C26: company isolation. getResume, deleteResume, batchProcess and
\* processResume never return, delete, score or create a resume of a company
\* other than the requesting user's: such a resume is answered with an
\* access-denied outcome and stays as it was in the table and in the bucket.
C26_CompanyIsolation ==
  /\ \A id \in Ids :
       IF id \in ForeignIds
       THEN store[id] = InitialStore[id] /\ id \in files
       ELSE store[id].exists => store[id].company_id \in UserCompanies
  /\ \A e \in events : e.id \notin ForeignIds
  /\ \A r \in Reqs :
       /\ reqs[r].code = 200 /\ reqs[r].kind = "getResume" =>
            reqs[r].data.company_id = reqs[r].user
       /\ (reqs[r].pc = "done" /\ reqs[r].kind \in {"getResume", "deleteResume"}
             /\ reqs[r].rid \in ForeignIds) =>
            reqs[r].code \in {403, 500} /\ reqs[r].data = NoRow
       /\ (reqs[r].kind = "deleteResume" /\ reqs[r].rid \in ForeignIds) =>
            reqs[r].pc \in {"handler", "done"}
       /\ (reqs[r].kind = "processResume" /\ reqs[r].companyId # reqs[r].user) =>
            /\ reqs[r].pc \in {"handler", "done"}
            /\ reqs[r].pc = "done" =>
                 reqs[r].code = (IF reqs[r].tokens_remaining > 0 THEN 403 ELSE 402)
       /\ \A k \in 1..Len(reqs[r].results) :
            reqs[r].ids[k] \in ForeignIds =>
              /\ ~reqs[r].results[k].success
              /\ reqs[r].results[k].score = 0
              /\ reqs[r].resumes[k] # LookupFailed =>
                   reqs[r].results[k].note = "Resume not found or access denied"

\* a deleteResume and a batchProcess aimed at the other company's resume
\* were both refused
C26_Witness ==
  /\ AnsweredWith(1, "deleteResume", 403)
  /\ reqs[1].rid \in ForeignIds
  /\ AnsweredWith(2, "batchProcess", 200)
  /\ reqs[2].ids = <<3>>
  /\ reqs[2].results = <<Failure(3, "Resume not found or access denied")>>

\* C27: once processResume has created its row with status 'processing',
\* the request ends with the row 'processed' and the answer 200, or with the
\* row 'failed' and the answer 500 provided the status write of the catch
\* block succeeded; the row is not left 'processing' behind an answer, and
\* 200 is only sent for a row whose status is 'processed'. (A row that
\* another request deleted meanwhile has no status.)
C27_RecordLeavesProcessing ==
  \A r \in Reqs :
    (reqs[r].kind = "processResume" /\ reqs[r].pc = "done") =>
      /\ reqs[r].code = 200 => reqs[r].rid # 0
      /\ reqs[r].rid # 0 =>
           /\ reqs[r].code \in {200, 500}
           /\ reqs[r].code = 200 => reqs[r].stored \in {"processed", ""}
           /\ reqs[r].code = 200 /\ store[reqs[r].rid].exists =>
                store[reqs[r].rid].status = "processed"
           /\ reqs[r].code = 500 /\ reqs[r].wrote => reqs[r].stored = "failed"
           /\ (reqs[r].code = 200 \/ reqs[r].wrote) => reqs[r].stored # "processing"
           /\ reqs[r].stored = "" => ~store[reqs[r].rid].exists

\* a processResume whose scoring failed has answered 500 and its row, still
\* on record, is 'failed'
C27_Witness ==
  \E r \in Reqs :
    /\ AnsweredWith(r, "processResume", 500)
    /\ reqs[r].rid # 0
    /\ reqs[r].wrote
    /\ Did(r, reqs[r].rid, "score")
    /\ ~Did(r, reqs[r].rid, "update")
    /\ store[reqs[r].rid] = Row(reqs[r].user, "failed", 0)

\* request r has made the call op for the item at position k of its list
DidAt(r, k, op) == \E e \in events : e.req = r /\ e.k = k /\ e.op = op

\* C28: in batchProcess every resume whose score was stored during the
\* batch is reported with success=true and costs exactly one token
\* decrement; a resume reported with success=false was not marked
\* 'processed' by this batch and cost no token.
C28_BatchStoredMeansReported ==
  \A r \in Reqs :
    reqs[r].kind = "batchProcess" =>
      \A k \in 1..Len(reqs[r].results) :
        /\ DidAt(r, k, "update") =>
             reqs[r].results[k].success /\ DidAt(r, k, "decrement")
        /\ ~reqs[r].results[k].success =>
             ~DidAt(r, k, "update") /\ ~DidAt(r, k, "decrement")

BatchCalls == {"download", "score", "update", "decrement"}

\* every entry of the batch reports a success
FullySuccessful(q) ==
  /\ AnsweredWith(q, "batchProcess", 200)
  /\ reqs[q].summary.successful = reqs[q].summary.total

\* C29: batchProcess leaves already-processed resumes untouched: for a
\* requested resume of the company that the lookup shows as 'processed', no
\* download, no scoring call, no score update and no token decrement is
\* made, and its entry reports success=true with the stored score; so the
\* same batch sent again after a fully successful run makes no scoring call
\* and no decrement.
C29_ProcessedLeftUntouched ==
  \A r \in Reqs :
    reqs[r].kind = "batchProcess" =>
      /\ \A k \in 1..Len(reqs[r].resumes) :
           LET resume == reqs[r].resumes[k] IN
           (resume.exists /\ resume.company_id = reqs[r].user
              /\ resume.status = "processed") =>
             /\ \A op \in BatchCalls : ~DidAt(r, k, op)
             /\ k <= Len(reqs[r].results)
             /\ reqs[r].results[k] =
                  Success(reqs[r].ids[k], "Already processed", resume.score)
      /\ \A q \in reqs[r].after :
           (FullySuccessful(q) /\ reqs[q].ids = reqs[r].ids) =>
             \A k \in 1..Len(reqs[r].ids), op \in BatchCalls : ~DidAt(r, k, op)

\* resume 1 was scored and charged by a first batch; the same batch, sent
\* again after the answer, reports it as already processed with the stored
\* score and makes no call
C29_Witness ==
  /\ FullySuccessful(1)
  /\ reqs[1].ids = <<1>>
  /\ DidAt(1, 1, "decrement")
  /\ AnsweredWith(2, "batchProcess", 200)
  /\ reqs[2].after = {1}
  /\ reqs[2].ids = <<1>>
  /\ reqs[2].results = <<Success(1, "Already processed", store[1].score)>>
  /\ \A e \in events : e.req = 1

\* C30: whenever deleteResume answers 200 'Resume deleted successfully',
\* the row of the resume and its file in the bucket have both been removed;
\* a failure of either removal gives an error answer.
C30_DeletedMeansBothRemoved ==
  \A r \in Reqs :
    AnsweredWith(r, "deleteResume", 200) =>
      /\ ~store[reqs[r].rid].exists
      /\ reqs[r].path \notin files

====
